---------------------------- MODULE Spec2Model ----------------------------
(***************************************************************************)
(* A model of the request orchestration and caching layer of the Morgen    *)
(* calendar extension: SimpleCache (src/src/cache.js) and MorgenAPIClient  *)
(* (src/src/morgen-api-client.js).                                         *)
(*                                                                         *)
(* The specifications share the definitions of the cache and the client:   *)
(*   SpecCache   the cache alone, driven by its public operations;         *)
(*   Spec        the client and an upstream service that may fail;         *)
(*   SpecFanOut  the fan-out over three accounts, and the clock;           *)
(*   SpecTTL     a few calls of the cached reads, and the clock.           *)
(***************************************************************************)
EXTENDS Integers, Sequences, FiniteSets, TLC

VARIABLES
    now,        \* Date.now(), in milliseconds
    cache,      \* SimpleCache.cache: the Map, as the sequence of its entries in insertion order
    maxSize,    \* SimpleCache.maxSize
    up,         \* the upstream service: its accounts, calendars and events
    lastOp,     \* what the last operation was given, what it did and what its caller got
    left,       \* the calls the host still makes, Unlimited when it makes any number
    server,     \* the server process around the client: which entry script, whether
                \* MORGEN_API_KEY is set, how far it has come, whether apiClient is set
    task        \* the call that is suspended at an await, Idle when none is

vars == <<now, cache, maxSize, up, lastOp, left, server, task>>

(***************************************************************************)
(* Bounds of the model.                                                    *)
(***************************************************************************)
MaxCap == 2       \* largest maxSize option given to a cache of SpecCache
MaxTick == 1      \* number of clock readings after the first, TickMs apart
MaxCalls == 2     \* number of calls the host makes in SpecTTL
MaxDepth == 2     \* nesting of getAllEventsInRange from which SpecNest stops counting
MaxDay == 7       \* last day, counted from the epoch, on which SpecDays reads the clock

(***************************************************************************)
(* Program constants.                                                      *)
(***************************************************************************)
DefaultMaxSize == 100     \* options.maxSize || 100
MsPerSecond == 1000       \* ttl * 1000
TickMs == 30 * MsPerSecond   \* SpecCache reads the clock every 30 s

Null == "null"            \* JavaScript's null, the answer of a get that misses

(***************************************************************************)
(* Strings.                                                                *)
(***************************************************************************)
StartsWith(s, p) == Len(s) >= Len(p) /\ SubSeq(s, 1, Len(p)) = p

Includes(s, p) == \E i \in 1..(Len(s) - Len(p) + 1) : SubSeq(s, i, i + Len(p) - 1) = p

(***************************************************************************)
(* The Map of SimpleCache: a sequence of entries with distinct keys, in    *)
(* insertion order.  Map.set on a key that is present replaces the entry   *)
(* where it stands; on a new key it appends.                               *)
(***************************************************************************)
MapKeys(m) == {m[i].key : i \in 1..Len(m)}

MapHas(m, key) == key \in MapKeys(m)

MapIndex(m, key) == CHOOSE i \in 1..Len(m) : m[i].key = key

MapGet(m, key) == m[MapIndex(m, key)]

MapDelete(m, key) == SelectSeq(m, LAMBDA e : e.key # key)

MapSet(m, entry) ==
    IF MapHas(m, entry.key)
    THEN [m EXCEPT ![MapIndex(m, entry.key)] = entry]
    ELSE Append(m, entry)

(***************************************************************************)
(* SimpleCache.                                                            *)
(***************************************************************************)
\* constructor: this.maxSize = options.maxSize || 100 (0 stands for an absent option)
CacheMaxSize(option) == IF option = 0 THEN DefaultMaxSize ELSE option

Expired(entry, t) == t > entry.expiresAt

\* CacheSet evicting only when the cache is over its capacity (> for >=)
CacheSetOffByOne(m, max, key, value, ttl, t) ==
    LET evicted == IF Len(m) > max /\ Len(m) > 0 THEN MapDelete(m, m[1].key) ELSE m
    IN  MapSet(evicted, [key |-> key, value |-> value,
                         expiresAt |-> t + ttl * MsPerSecond, createdAt |-> t])

\* CacheSet with the default TTL of the client's cache for every entry
CacheSetDefaultTTL(m, max, key, value, ttl, t) ==
    LET evicted == IF Len(m) >= max /\ Len(m) > 0 THEN MapDelete(m, m[1].key) ELSE m
    IN  MapSet(evicted, [key |-> key, value |-> value,
                         expiresAt |-> t + 120 * MsPerSecond, createdAt |-> t])

\* set(key, value, ttl) at time t: the cache afterwards
CacheSet(m, max, key, value, ttl, t) ==
    LET evicted == IF Len(m) >= max /\ Len(m) > 0 THEN MapDelete(m, m[1].key) ELSE m
    IN  MapSet(evicted, [key |-> key, value |-> value,
                         expiresAt |-> t + ttl * MsPerSecond, createdAt |-> t])

\* CacheGet without the expiry check
CacheGetNoExpiry(m, key, t) ==
    IF ~MapHas(m, key) THEN [hit |-> FALSE, value |-> Null, cache |-> m]
    ELSE [hit |-> TRUE, value |-> MapGet(m, key).value, cache |-> m]

\* get(key) at time t: the value returned (hit: it is an entry's value, not null)
\* and the cache afterwards
CacheGet(m, key, t) ==
    IF ~MapHas(m, key) THEN [hit |-> FALSE, value |-> Null, cache |-> m]
    ELSE IF Expired(MapGet(m, key), t)
    THEN [hit |-> FALSE, value |-> Null, cache |-> MapDelete(m, key)]
    ELSE [hit |-> TRUE, value |-> MapGet(m, key).value, cache |-> m]

\* has(key) at time t
CacheHas(m, key, t) ==
    [value |-> CacheGet(m, key, t).hit, cache |-> CacheGet(m, key, t).cache]

\* cleanup() at time t
\* a sweep that removes every entry
CacheCleanupAll(m, t) == <<>>

\* CacheCleanup removing an entry from the instant of its expiry on (>= for >)
CacheCleanupInclusive(m, t) == SelectSeq(m, LAMBDA e : t < e.expiresAt)

CacheCleanup(m, t) == SelectSeq(m, LAMBDA e : ~Expired(e, t))

(***************************************************************************)
(* The clock.                                                              *)
(***************************************************************************)
Tick ==
    /\ now < MaxTick * TickMs
    /\ now' = now + TickMs
    /\ UNCHANGED <<cache, maxSize, up, lastOp, left, server, task>>

(***************************************************************************)
(* SpecCache: one SimpleCache and its public operations.                   *)
(***************************************************************************)
CacheKeys == {"k1", "k2", "k3"}
CacheValues == {"v1", "v2"}
CacheTTLs == {0, 30}

Unlimited == 0 - 1

NoUpstream == [accounts |-> <<>>, calendars |-> <<>>, events |-> <<>>, faults |-> {}]

\* every operation flips seq, so that a step of an operation always changes lastOp
\* the cache or the client on its own, as a test or another program drives it
\* no call is suspended at a request
Idle == [pc |-> "idle"]

NoServer == [variant |-> "none", apiKey |-> TRUE, state |-> "running", apiClient |-> TRUE]

Did(op, key, value, ttl) ==
    [seq |-> 1 - lastOp.seq, op |-> op, key |-> key, value |-> value, ttl |-> ttl,
     size |-> Len(cache)]

InitCache ==
    /\ now = 0
    /\ cache = <<>>
    /\ maxSize \in {CacheMaxSize(option) : option \in 1..MaxCap}
    /\ up = NoUpstream
    /\ left = Unlimited
    /\ server = NoServer
    /\ task = Idle
    /\ lastOp = [seq |-> 0, op |-> "new", key |-> Null, value |-> Null, ttl |-> 0, size |-> 0]

DoSet ==
    \E key \in CacheKeys, value \in CacheValues, ttl \in CacheTTLs :
        /\ cache' = CacheSet(cache, maxSize, key, value, ttl, now)
        /\ lastOp' = Did("set", key, value, ttl)
        /\ UNCHANGED <<now, maxSize, up, left, server, task>>

DoGet ==
    \E key \in CacheKeys :
        /\ cache' = CacheGet(cache, key, now).cache
        /\ lastOp' = Did("get", key, CacheGet(cache, key, now).value, 0)
        /\ UNCHANGED <<now, maxSize, up, left, server, task>>

DoHas ==
    \E key \in CacheKeys :
        /\ cache' = CacheHas(cache, key, now).cache
        /\ lastOp' = Did("has", key, CacheHas(cache, key, now).value, 0)
        /\ UNCHANGED <<now, maxSize, up, left, server, task>>

DoDelete ==
    \E key \in CacheKeys :
        /\ cache' = MapDelete(cache, key)
        /\ lastOp' = Did("delete", key, MapHas(cache, key), 0)
        /\ UNCHANGED <<now, maxSize, up, left, server, task>>

DoClear ==
    /\ cache' = <<>>
    /\ lastOp' = Did("clear", Null, Null, 0)
    /\ UNCHANGED <<now, maxSize, up, left, server, task>>

DoCleanup ==
    /\ cache' = CacheCleanup(cache, now)
    /\ lastOp' = Did("cleanup", Null, Null, 0)
    /\ UNCHANGED <<now, maxSize, up, left, server, task>>

NextCache == DoSet \/ DoGet \/ DoHas \/ DoDelete \/ DoClear \/ DoCleanup \/ Tick

SpecCache == InitCache /\ [][NextCache]_vars

(***************************************************************************)
(* JavaScript values given to the client: undefined, strings, numbers and  *)
(* arrays of strings.                                                      *)
(***************************************************************************)
Undefined == [t |-> "undefined"]
Str(s) == [t |-> "string", v |-> s]
Num(n) == [t |-> "number", v |-> n]
Arr(a) == [t |-> "array", v |-> a]

\* if (x), !x, x || y
Truthy(x) ==
    CASE x.t = "undefined" -> FALSE
      [] x.t = "string" -> x.v # ""
      [] x.t = "number" -> x.v # 0
      [] x.t = "array" -> TRUE

\* x === 'literal'
IsStr(x, s) == x.t = "string" /\ x.v = s

RECURSIVE Join(_, _)
\* Array.prototype.join
Join(a, sep) ==
    IF Len(a) = 0 THEN ""
    ELSE IF Len(a) = 1 THEN a[1]
    ELSE a[1] \o sep \o Join(Tail(a), sep)

\* `${x}`
ToStr(x) ==
    CASE x.t = "undefined" -> "undefined"
      [] x.t = "string" -> x.v
      [] x.t = "number" -> ToString(x.v)
      [] x.t = "array" -> Join(x.v, ",")

\* x || y, as a value
OrElse(x, y) == IF Truthy(x) THEN x ELSE y

(***************************************************************************)
(* The upstream service.  up.accounts, up.calendars and up.events are what *)
(* it holds; every request either is answered from them, or is answered    *)
(* with a non-2xx status, or never gets an answer (a transport failure).   *)
(***************************************************************************)
Account(id) == [id |-> id]
Calendar(id, accountId) == [id |-> id, accountId |-> accountId]
Event(id, title, description, location, start, calendarId, accountId) ==
    [id |-> id, title |-> title, description |-> description, location |-> location,
     start |-> start, calendarId |-> calendarId, accountId |-> accountId]

NoError == [message |-> "", status |-> 0]
Error(message) == [message |-> message, status |-> 0]

\* response.status and response.statusText of a non-2xx answer; 0 where the request
\* got no such answer
StatusOf(outcome) ==
    CASE outcome = "401" -> 401 [] outcome = "429" -> 429 [] OTHER -> 0
StatusText(outcome) ==
    CASE outcome = "401" -> "Unauthorized" [] outcome = "429" -> "Too Many Requests"
      [] OTHER -> ""

RECURSIVE Split(_)
\* the ids of a comma-separated list
Split(s) ==
    IF \E i \in 1..Len(s) : SubSeq(s, i, i) = ","
    THEN LET i == CHOOSE k \in 1..Len(s) :
                    /\ SubSeq(s, k, k) = ","
                    /\ \A j \in 1..(k - 1) : SubSeq(s, j, j) # ","
         IN  <<SubSeq(s, 1, i - 1)>> \o Split(SubSeq(s, i + 1, Len(s)))
    ELSE <<s>>

SeqToSet(a) == {a[i] : i \in 1..Len(a)}

\* GET /events/list as the service answers it: the events of the calendars asked
\* for, of the account asked for when one is named
UpstreamEvents(req) ==
    SelectSeq(up.events, LAMBDA e :
        /\ (req.accountId # "" => e.accountId = req.accountId)
        /\ (req.calendarIds # "" => e.calendarId \in SeqToSet(Split(req.calendarIds))))

\* request(endpoint, options): the parsed body, or the error thrown
Request(req, outcome) ==
    IF outcome = "ok"
    THEN [threw |-> FALSE, error |-> NoError,
          data |-> CASE req.endpoint = "/calendars/list" -> up.calendars
                     [] req.endpoint = "/integrations/accounts/list" -> up.accounts
                     [] req.endpoint = "/events/list" -> UpstreamEvents(req)
                     [] req.endpoint = "/events/create" -> req.body]
    ELSE IF StatusOf(outcome) # 0
    THEN [threw |-> TRUE, data |-> Null,
          error |-> [message |-> "API Error " \o ToString(StatusOf(outcome)) \o ": "
                                     \o StatusText(outcome),
                     status |-> StatusOf(outcome)]]
    ELSE IF outcome = "body"
    \* a 2xx answer whose body cannot be read as JSON: `return response.json()` is
    \* not awaited inside the try, so that its rejection passes the catch by
    THEN [threw |-> TRUE, data |-> Null, error |-> Error("Unexpected end of JSON input")]
    ELSE [threw |-> TRUE, data |-> Null, error |-> Error("Network error: fetch failed")]

(***************************************************************************)
(* MorgenAPIClient.  A method is an operator from the cache and the calls  *)
(* issued so far (and the outcomes `net` of the requests it may issue) to  *)
(* the cache and the calls afterwards and what the caller gets: a result,  *)
(* or the error thrown.                                                    *)
(***************************************************************************)
ClientMaxSize == 100      \* new SimpleCache({ maxSize: 100, ... })
CalendarsTTL == 3600
AccountsTTL == 3600

Return(c, calls, result) ==
    [cache |-> c, calls |-> calls, threw |-> FALSE, error |-> NoError, result |-> result]

Throw(c, calls, error) ==
    [cache |-> c, calls |-> calls, threw |-> TRUE, error |-> error, result |-> Null]

\* Swallow rethrowing the error
SwallowRethrow(r, fallback) == r

\* catch (error) { console.error(...); return fallback }
Swallow(r, fallback) ==
    [cache |-> r.cache, calls |-> r.calls, threw |-> FALSE, error |-> NoError,
     result |-> fallback, caught |-> r.error]

Get(endpoint) == [method |-> "GET", endpoint |-> endpoint]

ListCalendars(c, calls, net) ==
    LET req == Get("/calendars/list")
        fetched(cached, response) ==
            IF response.threw THEN Throw(cached.cache, Append(calls, req), response.error)
            ELSE Return(CacheSet(cached.cache, maxSize, "calendars", response.data,
                                 CalendarsTTL, now),
                        Append(calls, req), response.data)
        looked(cached) ==
            IF cached.hit THEN Return(cached.cache, calls, cached.value)
            ELSE fetched(cached, Request(req, net.calendars))
    IN  looked(CacheGet(c, "calendars", now))

ListAccounts(c, calls, net) ==
    LET req == Get("/integrations/accounts/list")
        fetched(cached, response) ==
            IF response.threw THEN Throw(cached.cache, Append(calls, req), response.error)
            ELSE Return(CacheSet(cached.cache, maxSize, "accounts", response.data,
                                 AccountsTTL, now),
                        Append(calls, req), response.data)
        looked(cached) ==
            IF cached.hit THEN Return(cached.cache, calls, cached.value)
            ELSE fetched(cached, Request(req, net.accounts))
    IN  looked(CacheGet(c, "accounts", now))

Busy == "Busy (via Morgen)"
Untitled == "Untitled Event"

\* FilterSentinels without its second test
FilterSentinelsBusyOnly(events) == SelectSeq(events, LAMBDA e : e.title # Busy)

\* events.filter(event => event.title !== 'Busy (via Morgen)' && event.title !== 'Untitled Event')
FilterSentinels(events) == SelectSeq(events, LAMBDA e : e.title # Busy /\ e.title # Untitled)

\* the query string of listEvents: a parameter is sent when it is truthy
Param(x) == IF Truthy(x) THEN ToStr(x) ELSE ""

\* listEvents from the query string on: one GET /events/list, then the filter
ListEventsQuery(params, c, calls, net) ==
    LET req == [method |-> "GET", endpoint |-> "/events/list",
                accountId |-> Param(params.accountId),
                calendarIds |-> Param(params.calendarIds),
                start |-> Param(params.start), end |-> Param(params.end)]
        answered(response) ==
            IF response.threw THEN Throw(c, Append(calls, req), response.error)
            ELSE Return(c, Append(calls, req), FilterSentinels(response.data))
    IN  answered(Request(req, net.events[req.accountId]))

NoAccountsMessage ==
    "No calendar accounts configured. Please connect your calendars at https://platform.morgen.so"
NoCalendarsMessage ==
    "No calendars available. Please add calendars to your connected accounts."

\* Object.keys(calendarsByAccount): the owning accounts in the order in which the
\* calendars first name them (the ids are no integer-like strings)
RECURSIVE Owners(_)
Owners(calendars) ==
    IF Len(calendars) = 0 THEN <<>>
    ELSE LET rest == Owners(SubSeq(calendars, 1, Len(calendars) - 1))
             last == calendars[Len(calendars)].accountId
         IN  IF last \in SeqToSet(rest) THEN rest ELSE Append(rest, last)

\* calendarsByAccount[accountId].join(',')
CalendarIdsOf(calendars, accountId) ==
    LET own == SelectSeq(calendars, LAMBDA cal : cal.accountId = accountId)
    IN  Join([i \in 1..Len(own) |-> own[i].id], ",")

\* AccountError without the message of the error
AccountErrorIdOnly(accountId, error) == "Account " \o accountId

\* errors.push(`Account ${accountId}: ${error.message}`)
AccountError(accountId, error) == "Account " \o accountId \o ": " \o error.message

WithErrors(r, errors) ==
    [cache |-> r.cache, calls |-> r.calls, threw |-> r.threw, error |-> r.error,
     result |-> r.result, errors |-> errors]

RECURSIVE ListEvents(_, _, _, _)
RECURSIVE GetAllEventsInRange(_, _, _, _, _)
RECURSIVE FanOut(_, _, _, _, _, _)

\* the loop of getAllEventsInRange over the owning accounts, in order; acc holds
\* the cache, the calls, allEvents and errors so far
FanOut(accountIds, calendars, start, end, acc, net) ==
    IF Len(accountIds) = 0 THEN acc
    ELSE LET accountId == Head(accountIds)
             collected(r) ==
                 IF r.threw
                 THEN [cache |-> r.cache, calls |-> r.calls, allEvents |-> acc.allEvents,
                       errors |-> Append(acc.errors, AccountError(accountId, r.error))]
                 ELSE [cache |-> r.cache, calls |-> r.calls,
                       allEvents |-> acc.allEvents \o r.result, errors |-> acc.errors]
         IN  FanOut(Tail(accountIds), calendars, start, end,
                    collected(ListEvents(
                        [accountId |-> Str(accountId),
                         calendarIds |-> Str(CalendarIdsOf(calendars, accountId)),
                         start |-> start, end |-> end],
                        acc.cache, acc.calls, net)),
                    net)

\* a getAllEventsInRange that answers no events where it finds nothing to query
GetAllEventsInRangeLenient(start, end, c, calls, net) ==
    WithErrors(Return(c, calls, <<>>), <<>>)

\* a getAllEventsInRange that lists the accounts and the calendars and loops,
\* whatever the lists hold
GetAllEventsInRangeUnchecked(start, end, c, calls, net) ==
    LET looped(loop) ==
            IF Len(loop.allEvents) = 0 /\ Len(loop.errors) > 0
            THEN WithErrors(Throw(loop.cache, loop.calls,
                                  Error("Failed to fetch events from all accounts:\n"
                                        \o Join(loop.errors, "\n"))),
                            loop.errors)
            ELSE WithErrors(Return(loop.cache, loop.calls, loop.allEvents), loop.errors)
        listed(calendars) ==
            IF calendars.threw THEN WithErrors(calendars, <<>>)
            ELSE looped(FanOut(Owners(calendars.result), calendars.result, start, end,
                               [cache |-> calendars.cache, calls |-> calendars.calls,
                                allEvents |-> <<>>, errors |-> <<>>], net))
        connected(accounts) ==
            IF accounts.threw THEN WithErrors(accounts, <<>>)
            ELSE listed(ListCalendars(accounts.cache, accounts.calls, net))
    IN  connected(ListAccounts(c, calls, net))

GetAllEventsInRange(start, end, c, calls, net) ==
    LET looped(loop) ==
            \* If all accounts failed, throw an error
            IF Len(loop.allEvents) = 0 /\ Len(loop.errors) > 0
            THEN WithErrors(Throw(loop.cache, loop.calls,
                                  Error("Failed to fetch events from all accounts:\n"
                                        \o Join(loop.errors, "\n"))),
                            loop.errors)
            ELSE WithErrors(Return(loop.cache, loop.calls, loop.allEvents), loop.errors)
        listed(calendars) ==
            IF calendars.threw THEN WithErrors(calendars, <<>>)
            ELSE IF Len(calendars.result) = 0
            THEN WithErrors(Throw(calendars.cache, calendars.calls,
                                  Error(NoCalendarsMessage)), <<>>)
            ELSE looped(FanOut(Owners(calendars.result), calendars.result, start, end,
                               [cache |-> calendars.cache, calls |-> calendars.calls,
                                allEvents |-> <<>>, errors |-> <<>>], net))
        connected(accounts) ==
            IF accounts.threw THEN WithErrors(accounts, <<>>)
            ELSE IF Len(accounts.result) = 0
            THEN WithErrors(Throw(accounts.cache, accounts.calls,
                                  Error(NoAccountsMessage)), <<>>)
            ELSE listed(ListCalendars(accounts.cache, accounts.calls, net))
    IN  connected(ListAccounts(c, calls, net))

\* a listEvents that reads all calendars with one query whether dates are given
\* or not
ListEventsAllInOne(params, c, calls, net) ==
    LET listed(calendars) ==
            IF calendars.threw THEN calendars
            ELSE IF Len(calendars.result) = 0
            THEN Throw(calendars.cache, calendars.calls, Error(NoCalendarsMessage))
            ELSE ListEventsQuery(
                     [params EXCEPT !.calendarIds =
                         Str(Join([i \in 1..Len(calendars.result) |->
                                      calendars.result[i].id], ","))],
                     calendars.cache, calendars.calls, net)
    IN  IF IsStr(params.calendarIds, "all") \/ IsStr(params.calendarIds, "ALL")
        THEN listed(ListCalendars(c, calls, net))
        ELSE ListEventsQuery(params, c, calls, net)

ListEvents(params, c, calls, net) ==
    LET listed(calendars) ==
            IF calendars.threw THEN calendars
            ELSE IF Len(calendars.result) = 0
            THEN Throw(calendars.cache, calendars.calls, Error(NoCalendarsMessage))
            ELSE ListEventsQuery(
                     [params EXCEPT !.calendarIds =
                         Str(Join([i \in 1..Len(calendars.result) |->
                                      calendars.result[i].id], ","))],
                     calendars.cache, calendars.calls, net)
    IN  IF IsStr(params.calendarIds, "all") \/ IsStr(params.calendarIds, "ALL")
        THEN IF Truthy(params.start) /\ Truthy(params.end)
             THEN GetAllEventsInRange(params.start, params.end, c, calls, net)
             ELSE listed(ListCalendars(c, calls, net))
        ELSE ListEventsQuery(params, c, calls, net)

(***************************************************************************)
(* Dates.  An instant is a number of milliseconds since the epoch; its ISO *)
(* string is written D<day>T<millisecond of the day>, the day counted from *)
(* the epoch.  Local time is UTC.                                          *)
(***************************************************************************)
MsPerDay == 24 * 60 * 60 * MsPerSecond

\* new Date(t), moved by a number of days with setDate, .toISOString()
IsoString(t, plusDays) ==
    "D" \o ToString(t \div MsPerDay + plusDays) \o "T" \o ToString(t % MsPerDay)

\* today.setHours(0, 0, 0, 0)
Midnight(t) == t - (t % MsPerDay)

\* Date.prototype.getDay of a day counted from the epoch, a Thursday
GetDay(day) == (day + 4) % 7

DayNames == <<"Sunday", "Monday", "Tuesday", "Wednesday", "Thursday", "Friday", "Saturday">>

(***************************************************************************)
(* Cache keys.                                                             *)
(***************************************************************************)
\* SimpleCache.generateEventKey('events:range', { account_id, start_date, end_date,
\* calendar_ids }): the names sorted, `${key}:${params[key]}` joined by '|'
GenerateEventKey(type, params) ==
    LET sortedParams == Join(<<"account_id:" \o ToStr(params.account_id),
                               "calendar_ids:" \o ToStr(params.calendar_ids),
                               "end_date:" \o ToStr(params.end_date),
                               "start_date:" \o ToStr(params.start_date)>>, "|")
    IN  IF sortedParams # "" THEN type \o ":" \o sortedParams ELSE type

\* JSON.stringify of a string or a number
Json(x) == IF x.t = "string" THEN "\"" \o x.v \o "\"" ELSE ToStr(x)

\* SimpleCache.hashSearchOptions: JSON.stringify(options, Object.keys(options).sort());
\* a property whose value is undefined is left out
HashSearchOptions(options) ==
    LET prop(name, x) == IF x.t = "undefined" THEN <<>>
                         ELSE <<"\"" \o name \o "\":" \o Json(x)>>
    IN  "{" \o Join(prop("end_date", options.end_date)
                    \o prop("max_results", options.max_results)
                    \o prop("start_date", options.start_date), ",") \o "}"

(***************************************************************************)
(* The query facade.                                                       *)
(***************************************************************************)
SearchTTL == 30
TodayTTL == 120
WeekTTL == 120
RangeTTL == 60
DefaultMaxResults == 20
SearchWindowDays == 30

LowerChar(ch) ==
    CASE ch = "A" -> "a" [] ch = "B" -> "b" [] ch = "C" -> "c" [] ch = "D" -> "d"
      [] ch = "E" -> "e" [] ch = "F" -> "f" [] ch = "G" -> "g" [] ch = "H" -> "h"
      [] ch = "I" -> "i" [] ch = "J" -> "j" [] ch = "K" -> "k" [] ch = "L" -> "l"
      [] ch = "M" -> "m" [] ch = "N" -> "n" [] ch = "O" -> "o" [] ch = "P" -> "p"
      [] ch = "Q" -> "q" [] ch = "R" -> "r" [] ch = "S" -> "s" [] ch = "T" -> "t"
      [] ch = "U" -> "u" [] ch = "V" -> "v" [] ch = "W" -> "w" [] ch = "X" -> "x"
      [] ch = "Y" -> "y" [] ch = "Z" -> "z" [] OTHER -> ch

RECURSIVE ToLowerCase(_)
ToLowerCase(s) ==
    IF Len(s) = 0 THEN ""
    ELSE LowerChar(SubSeq(s, 1, 1)) \o ToLowerCase(SubSeq(s, 2, Len(s)))

\* the filter of searchEvents
Matches(event, query) ==
    /\ event.title # Busy
    /\ event.title # Untitled
    /\ \/ Includes(ToLowerCase(event.title), ToLowerCase(query))
       \/ Includes(ToLowerCase(event.description), ToLowerCase(query))
       \/ Includes(ToLowerCase(event.location), ToLowerCase(query))

\* a slice that keeps one element more
SliceInclusive(a, n) == SubSeq(a, 1, IF n + 1 < Len(a) THEN n + 1 ELSE Len(a))

\* Array.prototype.slice(0, n)
Slice(a, n) ==
    IF n >= 0 THEN SubSeq(a, 1, IF n < Len(a) THEN n ELSE Len(a))
    ELSE SubSeq(a, 1, Len(a) + n)

SearchEvents(query, options, c, calls, net) ==
    LET cacheKey == "search:" \o query \o ":" \o HashSearchOptions(options)
        start == OrElse(options.start_date, Str(IsoString(now, 0 - SearchWindowDays)))
        end == OrElse(options.end_date, Str(IsoString(now, SearchWindowDays)))
        maxResults == OrElse(options.max_results, Num(DefaultMaxResults)).v
        stored(allEvents, results) ==
            Return(CacheSet(allEvents.cache, maxSize, cacheKey, results, SearchTTL, now),
                   allEvents.calls, results)
        fetched(allEvents) ==
            IF allEvents.threw THEN Throw(allEvents.cache, allEvents.calls, allEvents.error)
            ELSE stored(allEvents,
                        Slice(SelectSeq(allEvents.result, LAMBDA e : Matches(e, query)),
                              maxResults))
        looked(cached) ==
            IF cached.hit THEN Return(cached.cache, calls, cached.value)
            ELSE fetched(GetAllEventsInRange(start, end, cached.cache, calls, net))
    IN  looked(CacheGet(c, cacheKey, now))

\* a getTodayEvents that caches the events of today when every account answered
GetTodayEventsCompleteOnly(c, calls, net) ==
    LET today == Midnight(now)
        fetched(events) ==
            IF events.threw THEN Swallow(events, <<>>)
            ELSE IF events.errors # <<>>
            THEN Return(events.cache, events.calls, events.result)
            ELSE Return(CacheSet(events.cache, maxSize, "events:today", events.result,
                                 TodayTTL, now),
                        events.calls, events.result)
        looked(cached) ==
            IF cached.hit THEN Return(cached.cache, calls, cached.value)
            ELSE fetched(GetAllEventsInRange(Str(IsoString(today, 0)),
                                             Str(IsoString(today, 1)),
                                             cached.cache, calls, net))
    IN  looked(CacheGet(c, "events:today", now))

\* a getTodayEvents that caches the empty answer it gives when it fails
GetTodayEventsCachingFailure(c, calls, net) ==
    LET today == Midnight(now)
        fetched(events) ==
            IF events.threw
            THEN Swallow([events EXCEPT !.cache = CacheSet(events.cache, maxSize,
                                                           "events:today", <<>>,
                                                           TodayTTL, now)], <<>>)
            ELSE Return(CacheSet(events.cache, maxSize, "events:today", events.result,
                                 TodayTTL, now),
                        events.calls, events.result)
        looked(cached) ==
            IF cached.hit THEN Return(cached.cache, calls, cached.value)
            ELSE fetched(GetAllEventsInRange(Str(IsoString(today, 0)),
                                             Str(IsoString(today, 1)),
                                             cached.cache, calls, net))
    IN  looked(CacheGet(c, "events:today", now))

GetTodayEvents(c, calls, net) ==
    LET today == Midnight(now)
        fetched(events) ==
            IF events.threw THEN Swallow(events, <<>>)
            ELSE Return(CacheSet(events.cache, maxSize, "events:today", events.result,
                                 TodayTTL, now),
                        events.calls, events.result)
        looked(cached) ==
            IF cached.hit THEN Return(cached.cache, calls, cached.value)
            ELSE fetched(GetAllEventsInRange(Str(IsoString(today, 0)),
                                             Str(IsoString(today, 1)),
                                             cached.cache, calls, net))
    IN  looked(CacheGet(c, "events:today", now))

NoWeekEvents ==
    [Monday |-> <<>>, Tuesday |-> <<>>, Wednesday |-> <<>>, Thursday |-> <<>>,
     Friday |-> <<>>, Saturday |-> <<>>, Sunday |-> <<>>]

\* a bucketing that puts every event under Sunday as well
OnDayOrSunday(events, dayName) ==
    SelectSeq(events, LAMBDA e : \/ DayNames[GetDay(e.start) + 1] = dayName
                                 \/ dayName = "Sunday")

\* the events whose start falls on the weekday of that name.  The start of an
\* event is a timestamp, so that dayNames[eventDate.getDay()] is one of the seven
\* names and `if (eventsByDay[dayName])` holds
OnDay(events, dayName) ==
    SelectSeq(events, LAMBDA e : DayNames[GetDay(e.start) + 1] = dayName)

\* DaysToMonday that takes Sunday for the day before the Monday
DaysToNextMonday(dayOfWeek) == 1 - dayOfWeek

\* const daysToMonday = dayOfWeek === 0 ? -6 : 1 - dayOfWeek
DaysToMonday(dayOfWeek) == IF dayOfWeek = 0 THEN 0 - 6 ELSE 1 - dayOfWeek

GetWeekEvents(c, calls, net) ==
    LET today == Midnight(now)
        dayOfWeek == GetDay(today \div MsPerDay)
        daysToMonday == DaysToMonday(dayOfWeek)
        stored(allEvents, eventsByDay) ==
            Return(CacheSet(allEvents.cache, maxSize, "events:week", eventsByDay,
                            WeekTTL, now),
                   allEvents.calls, eventsByDay)
        fetched(allEvents) ==
            IF allEvents.threw THEN Swallow(allEvents, NoWeekEvents)
            ELSE stored(allEvents, [dayName \in DOMAIN NoWeekEvents |->
                                        OnDay(allEvents.result, dayName)])
        looked(cached) ==
            IF cached.hit THEN Return(cached.cache, calls, cached.value)
            ELSE fetched(GetAllEventsInRange(Str(IsoString(today, daysToMonday)),
                                             Str(IsoString(today, daysToMonday + 7)),
                                             cached.cache, calls, net))
    IN  looked(CacheGet(c, "events:week", now))

\* a getEvents that looks its key up in the cache before it checks its parameters
GetEventsLookupFirst(options, c, calls, net) ==
    LET cacheKey == GenerateEventKey("events:range",
                        [options EXCEPT !.calendar_ids =
                             OrElse(options.calendar_ids, Str("all"))])
        fetched(events) ==
            IF events.threw THEN Throw(events.cache, events.calls, events.error)
            ELSE Return(CacheSet(events.cache, maxSize, cacheKey, events.result,
                                 RangeTTL, now),
                        events.calls, events.result)
        looked(cached) ==
            IF cached.hit THEN Return(cached.cache, calls, cached.value)
            ELSE IF \/ ~Truthy(options.start_date)
                    \/ ~Truthy(options.end_date)
                    \/ ~Truthy(options.calendar_ids)
            THEN Throw(cached.cache, calls,
                       Error("start_date, end_date, account_id, and calendar_ids are required"))
            ELSE IF ~Truthy(options.account_id) /\ IsStr(options.calendar_ids, "all")
            THEN Throw(cached.cache, calls,
                       Error("account_id is required when calendar_ids is \"all\""))
            ELSE fetched(ListEvents([accountId |-> options.account_id,
                                     start |-> options.start_date,
                                     end |-> options.end_date,
                                     calendarIds |-> options.calendar_ids],
                                    cached.cache, calls, net))
    IN  looked(CacheGet(c, cacheKey, now))

\* a getEvents that catches what its query throws and answers no events
GetEventsBestEffort(options, c, calls, net) ==
    Swallow(ListEvents([accountId |-> options.account_id,
                        start |-> options.start_date,
                        end |-> options.end_date,
                        calendarIds |-> options.calendar_ids], c, calls, net), <<>>)

\* a getEvents that answers, of the events of all calendars, those of the account
\* it is given
GetEventsOwnAccount(options, c, calls, net) ==
    LET cacheKey == GenerateEventKey("events:range",
                        [account_id |-> options.account_id,
                         start_date |-> options.start_date,
                         end_date |-> options.end_date,
                         calendar_ids |-> OrElse(options.calendar_ids, Str("all"))])
        own(events) == SelectSeq(events, LAMBDA e : e.accountId = ToStr(options.account_id))
        fetched(events) ==
            IF events.threw THEN Throw(events.cache, events.calls, events.error)
            ELSE Return(CacheSet(events.cache, maxSize, cacheKey, own(events.result),
                                 RangeTTL, now),
                        events.calls, own(events.result))
        looked(cached) ==
            IF cached.hit THEN Return(cached.cache, calls, cached.value)
            ELSE IF IsStr(options.calendar_ids, "all")
            THEN fetched(GetAllEventsInRange(options.start_date, options.end_date,
                                             cached.cache, calls, net))
            ELSE IF options.calendar_ids.t # "string"
            THEN Throw(cached.cache, calls, Error("calendar_ids must be a string"))
            ELSE fetched(ListEvents([accountId |-> options.account_id,
                                     start |-> options.start_date,
                                     end |-> options.end_date,
                                     calendarIds |-> options.calendar_ids],
                                    cached.cache, calls, net))
    IN  IF \/ ~Truthy(options.start_date)
           \/ ~Truthy(options.end_date)
           \/ ~Truthy(options.calendar_ids)
           \/ ~Truthy(options.account_id) /\ IsStr(options.calendar_ids, "all")
        THEN Throw(c, calls, Error("start_date, end_date, account_id, and calendar_ids are required"))
        ELSE looked(CacheGet(c, cacheKey, now))

GetEvents(options, c, calls, net) ==
    LET cacheKey == GenerateEventKey("events:range",
                        [account_id |-> options.account_id,
                         start_date |-> options.start_date,
                         end_date |-> options.end_date,
                         calendar_ids |-> OrElse(options.calendar_ids, Str("all"))])
        all == \/ ~Truthy(options.calendar_ids)
               \/ IsStr(options.calendar_ids, "all")
               \/ IsStr(options.calendar_ids, "ALL")
        fetched(events) ==
            IF events.threw THEN Throw(events.cache, events.calls, events.error)
            ELSE Return(CacheSet(events.cache, maxSize, cacheKey, events.result,
                                 RangeTTL, now),
                        events.calls, events.result)
        looked(cached) ==
            IF cached.hit THEN Return(cached.cache, calls, cached.value)
            ELSE IF all
            THEN fetched(GetAllEventsInRange(options.start_date, options.end_date,
                                             cached.cache, calls, net))
            ELSE IF options.calendar_ids.t # "string"
            THEN Throw(cached.cache, calls,
                       Error("calendar_ids must be a string. Use \"all\" for all calendars or comma-separated IDs like \"cal-1,cal-2\""))
            ELSE fetched(ListEvents([accountId |-> options.account_id,
                                     start |-> options.start_date,
                                     end |-> options.end_date,
                                     calendarIds |-> options.calendar_ids],
                                    cached.cache, calls, net))
    IN  IF \/ ~Truthy(options.start_date)
           \/ ~Truthy(options.end_date)
           \/ ~Truthy(options.calendar_ids)
        THEN Throw(c, calls,
                   Error("start_date, end_date, account_id, and calendar_ids are required"))
        ELSE IF ~Truthy(options.account_id) /\ IsStr(options.calendar_ids, "all")
        THEN Throw(c, calls, Error("account_id is required when calendar_ids is \"all\""))
        ELSE looked(CacheGet(c, cacheKey, now))

\* KeysToDelete without the search: prefix
KeysToDeleteEventsOnly(c) ==
    LET hit == SelectSeq(c, LAMBDA e : StartsWith(e.key, "events:"))
    IN  [i \in 1..Len(hit) |-> hit[i].key]

\* the keys invalidateEventCaches collects
KeysToDelete(c) ==
    LET hit == SelectSeq(c, LAMBDA e : StartsWith(e.key, "events:")
                                        \/ StartsWith(e.key, "search:"))
    IN  [i \in 1..Len(hit) |-> hit[i].key]

RECURSIVE DeleteAll(_, _)
\* keysToDelete.forEach(key => this.cache.delete(key))
DeleteAll(c, keys) ==
    IF Len(keys) = 0 THEN c ELSE DeleteAll(MapDelete(c, Head(keys)), Tail(keys))

\* InvalidateEventCaches by this.cache.clear()
InvalidateEventCachesByClear(c) == <<>>

InvalidateEventCaches(c) == DeleteAll(c, KeysToDelete(c))

\* new Date(s) of the date strings given to createEvent, as milliseconds of their day
DateMs == ("2024-01-15T10:00:00Z" :> 36000000) @@ ("2024-01-15T10:30:30Z" :> 37830000)

\* Math.round((endTime - startTime) / (1000 * 60))
DurationMinutes(start, end) == (DateMs[end] - DateMs[start] + 30 * MsPerSecond) \div (60 * MsPerSecond)

RequiredFields == <<"title", "start_date", "end_date", "calendar_id">>

\* the last required field that eventData lacks, or 0
LastMissing(eventData) ==
    IF \E i \in 1..Len(RequiredFields) : ~Truthy(eventData[RequiredFields[i]])
    THEN CHOOSE i \in 1..Len(RequiredFields) :
            /\ ~Truthy(eventData[RequiredFields[i]])
            /\ \A j \in (i + 1)..Len(RequiredFields) : Truthy(eventData[RequiredFields[j]])
    ELSE 0

\* the first required field that eventData lacks, or 0
FirstMissing(eventData) ==
    IF \E i \in 1..Len(RequiredFields) : ~Truthy(eventData[RequiredFields[i]])
    THEN CHOOSE i \in 1..Len(RequiredFields) :
            /\ ~Truthy(eventData[RequiredFields[i]])
            /\ \A j \in 1..(i - 1) : Truthy(eventData[RequiredFields[j]])
    ELSE 0

\* what a successful createEvent adds to its answer for the record: the cache as
\* invalidateEventCaches found it
Invalidated(r, before) ==
    [cache |-> r.cache, calls |-> r.calls, threw |-> r.threw, error |-> r.error,
     result |-> r.result, before |-> before]

\* a find that settles for any calendar
FindAny(calendars, calendarId) == calendars

\* calendars.find(cal => cal.id === calendarId): the calendars of that id, of which
\* createEvent takes the first
Find(calendars, calendarId) ==
    SelectSeq(calendars, LAMBDA cal : IsStr(calendarId, cal.id))

\* a createEvent that invalidates the event caches whatever the create request
\* comes to
CreateEventInvalidateAlways(eventData, c, calls, net) ==
    LET morgenEventData(calendar) ==
            [title |-> ToStr(eventData.title),
             description |-> ToStr(OrElse(eventData.description, Str(""))),
             start |-> ToStr(eventData.start_date),
             duration |-> ToString(DurationMinutes(ToStr(eventData.start_date),
                                                   ToStr(eventData.end_date))) \o "m",
             accountId |-> calendar.accountId,
             calendarId |-> ToStr(eventData.calendar_id),
             timeZone |-> ToStr(OrElse(eventData.timezone, Str("UTC")))]
        posted(calendars, req, response) ==
            IF response.threw
            THEN Throw(InvalidateEventCaches(calendars.cache), Append(calendars.calls, req),
                       response.error)
            ELSE Invalidated(Return(InvalidateEventCaches(calendars.cache),
                                    Append(calendars.calls, req), response.data),
                             calendars.cache)
        post(calendars, req) == posted(calendars, req, Request(req, net.create))
        sought(calendars, found) ==
            IF Len(found) = 0
            THEN Throw(calendars.cache, calendars.calls,
                       Error("Calendar with ID " \o ToStr(eventData.calendar_id)
                             \o " not found"))
            ELSE post(calendars, [method |-> "POST", endpoint |-> "/events/create",
                                  body |-> morgenEventData(found[1])])
        listed(calendars) ==
            IF calendars.threw THEN calendars
            ELSE sought(calendars, Find(calendars.result, eventData.calendar_id))
        missing(i) ==
            IF i # 0 THEN Throw(c, calls, Error("Missing required field: "
                                                \o RequiredFields[IF i = 0 THEN 1 ELSE i]))
            ELSE listed(ListCalendars(c, calls, net))
    IN  missing(FirstMissing(eventData))

CreateEvent(eventData, c, calls, net) ==
    LET morgenEventData(calendar) ==
            [title |-> ToStr(eventData.title),
             description |-> ToStr(OrElse(eventData.description, Str(""))),
             start |-> ToStr(eventData.start_date),
             duration |-> ToString(DurationMinutes(ToStr(eventData.start_date),
                                                   ToStr(eventData.end_date))) \o "m",
             accountId |-> calendar.accountId,
             calendarId |-> ToStr(eventData.calendar_id),
             timeZone |-> ToStr(OrElse(eventData.timezone, Str("UTC")))]
        posted(calendars, req, response) ==
            IF response.threw
            THEN Throw(calendars.cache, Append(calendars.calls, req), response.error)
            ELSE Invalidated(Return(InvalidateEventCaches(calendars.cache),
                                    Append(calendars.calls, req), response.data),
                             calendars.cache)
        post(calendars, req) == posted(calendars, req, Request(req, net.create))
        sought(calendars, found) ==
            IF Len(found) = 0
            THEN Throw(calendars.cache, calendars.calls,
                       Error("Calendar with ID " \o ToStr(eventData.calendar_id)
                             \o " not found"))
            ELSE post(calendars, [method |-> "POST", endpoint |-> "/events/create",
                                  body |-> morgenEventData(found[1])])
        listed(calendars) ==
            IF calendars.threw THEN calendars
            ELSE sought(calendars, Find(calendars.result, eventData.calendar_id))
        missing(i) ==
            IF i # 0 THEN Throw(c, calls, Error("Missing required field: "
                                                \o RequiredFields[IF i = 0 THEN 1 ELSE i]))
            ELSE listed(ListCalendars(c, calls, net))
    IN  missing(FirstMissing(eventData))

(***************************************************************************)
(* The client, its cache, the upstream service and the clock.  The host    *)
(* delivers one tool call at a time and the client runs it to its end      *)
(* before the next: a step is one whole call.                              *)
(***************************************************************************)
\* the clock readings of the client: up to MaxTick half minutes, in the first hour
\* or right after it
ClockReadings ==
    {i * 30 * MsPerSecond + h * CalendarsTTL * MsPerSecond : i \in 0..MaxTick, h \in 0..1}

Elapse ==
    /\ \E t \in ClockReadings : t > now /\ now' = t
    /\ UNCHANGED <<cache, maxSize, up, lastOp, left, server, task>>

\* the interval timer of the cache fires
CleanupTimer ==
    /\ cache' = CacheCleanup(cache, now)
    /\ UNCHANGED <<now, maxSize, up, lastOp, left, server, task>>

Standup == Event("e1", "Team Standup", "Daily sync", "Room 1", 0, "cal-1", "acc-1")
BusySlot == Event("e2", Busy, "", "", 0, "cal-1", "acc-1")
UntitledSlot == Event("e3", Untitled, "", "", 1, "cal-2", "acc-2")
Review == Event("e4", "Client Review", "", "Standup corner", 4, "cal-3", "acc-3")

Faults == {"401", "network"}

\* two accounts, one of them holding placeholder events only
TwoAccounts(faults) ==
    [accounts |-> <<Account("acc-1"), Account("acc-2")>>,
     calendars |-> <<Calendar("cal-1", "acc-1"), Calendar("cal-2", "acc-2")>>,
     events |-> <<Standup, BusySlot, UntitledSlot>>,
     faults |-> faults]

\* three accounts, the second holding placeholder events only
ThreeAccounts(faults) ==
    [accounts |-> <<Account("acc-1"), Account("acc-2"), Account("acc-3")>>,
     calendars |-> <<Calendar("cal-1", "acc-1"), Calendar("cal-2", "acc-2"),
                     Calendar("cal-3", "acc-3")>>,
     events |-> <<Standup, BusySlot, UntitledSlot, Review>>,
     faults |-> faults]

NoCalendars(faults) ==
    [accounts |-> <<Account("acc-1")>>, calendars |-> <<>>, events |-> <<>>,
     faults |-> faults]

NoAccounts(faults) ==
    [accounts |-> <<>>, calendars |-> <<>>, events |-> <<>>, faults |-> faults]

\* what a request may come to
Outcomes == {"ok"} \cup up.faults

\* the account ids an events query may name ("" when it names none)
EventTargets == {"", "acc-1", "acc-2", "acc-3"}

\* the outcomes of the requests of one call: of those it may issue, any; of the
\* others, "ok"
Nets(accounts, calendars, create, targets) ==
    { [accounts |-> a, calendars |-> cl, create |-> cr,
       events |-> [t \in EventTargets |-> IF t \in targets THEN ev[t] ELSE "ok"]] :
        a \in (IF accounts THEN Outcomes ELSE {"ok"}),
        cl \in (IF calendars THEN Outcomes ELSE {"ok"}),
        cr \in (IF create THEN Outcomes ELSE {"ok"}),
        ev \in [targets -> Outcomes] }

\* a request that follows a failed one is not issued: its outcome is left "ok"
InOrder(net) ==
    /\ net.accounts # "ok" => net.calendars = "ok"
    /\ (net.accounts # "ok" \/ net.calendars # "ok") =>
           /\ net.create = "ok"
           /\ \A t \in EventTargets : net.events[t] = "ok"

Miss(key) == ~CacheGet(cache, key, now).hit

\* the outcomes of the requests of a fan-out
FanOutNets ==
    { net \in Nets(Miss("accounts"), Miss("calendars"), FALSE,
                   SeqToSet(Owners(up.calendars))) : InOrder(net) }

\* the outcomes of the requests of a read that is cached under key
CachedReadNets(key, nets) == IF Miss(key) THEN nets ELSE Nets(FALSE, FALSE, FALSE, {})

Field(out, name, default) == IF name \in DOMAIN out THEN out[name] ELSE default

\* the record of a call: what it was given and when, what its requests came to, the
\* requests it issued, and what its caller got
Observed(op, args, net, out) ==
    [op |-> op, args |-> args, at |-> now, net |-> net, calls |-> out.calls,
     threw |-> out.threw, error |-> out.error, result |-> out.result,
     errors |-> Field(out, "errors", <<>>), caught |-> Field(out, "caught", NoError),
     before |-> Field(out, "before", <<>>)]

Run(op, args, net, out) ==
    /\ left # 0
    /\ left' = (IF left = Unlimited THEN Unlimited ELSE left - 1)
    /\ cache' = out.cache
    /\ lastOp' = Observed(op, args, net, out)
    /\ UNCHANGED <<now, maxSize, up, server, task>>

\* a process that holds (or will hold) a client, talking to the given upstream
\* service
InitProcess(upstream, budget, process) ==
    /\ now = 0
    /\ cache = <<>>
    /\ maxSize = CacheMaxSize(ClientMaxSize)
    /\ up = upstream
    /\ left = budget
    /\ server = process
    /\ task = Idle
    /\ lastOp = [op |-> "new", args |-> <<>>, at |-> 0,
                 net |-> CHOOSE net \in Nets(FALSE, FALSE, FALSE, {}) : TRUE, calls |-> <<>>, threw |-> FALSE,
                 error |-> NoError, result |-> Null, errors |-> <<>>, caught |-> NoError,
                 before |-> <<>>]

\* new MorgenAPIClient(apiKey), talking to the given upstream service
InitClient(upstream, budget) == InitProcess(upstream, budget, NoServer)

RangeStart == Str("2024-01-15T00:00:00Z")
RangeEnd == Str("2024-01-16T00:00:00Z")

ListCalendarsOp ==
    \E net \in Nets(FALSE, Miss("calendars"), FALSE, {}) :
        Run("listCalendars", <<>>, net, ListCalendars(cache, <<>>, net))

ListAccountsOp ==
    \E net \in Nets(Miss("accounts"), FALSE, FALSE, {}) :
        Run("listAccounts", <<>>, net, ListAccounts(cache, <<>>, net))

ListEventsInputs ==
    { [accountId |-> Str("acc-1"), calendarIds |-> Str("cal-1"),
       start |-> RangeStart, end |-> RangeEnd],
      [accountId |-> Undefined, calendarIds |-> Str("all"),
       start |-> RangeStart, end |-> RangeEnd],
      [accountId |-> Undefined, calendarIds |-> Str("all"),
       start |-> Undefined, end |-> Undefined],
      [accountId |-> Undefined, calendarIds |-> Undefined,
       start |-> Undefined, end |-> Undefined] }

ListEventsOp ==
    \E params \in ListEventsInputs :
        \E net \in IF IsStr(params.calendarIds, "all") /\ Truthy(params.start)
                   THEN FanOutNets
                   ELSE { n \in Nets(FALSE,
                                     Miss("calendars") /\ IsStr(params.calendarIds, "all"),
                                     FALSE, {Param(params.accountId)}) : InOrder(n) } :
            Run("listEvents", params, net, ListEvents(params, cache, <<>>, net))

GetAllEventsInRangeOp ==
    \E net \in FanOutNets :
        Run("getAllEventsInRange", <<RangeStart, RangeEnd>>, net,
            GetAllEventsInRange(RangeStart, RangeEnd, cache, <<>>, net))

SearchInputs ==
    { [query |-> "STAND", options |-> [start_date |-> RangeStart, end_date |-> RangeEnd,
                                       max_results |-> Num(1)]] }

SearchKey(in) == "search:" \o in.query \o ":" \o HashSearchOptions(in.options)

SearchEventsOp ==
    \E in \in SearchInputs :
        \E net \in CachedReadNets(SearchKey(in), FanOutNets) :
            Run("searchEvents", in, net, SearchEvents(in.query, in.options, cache, <<>>, net))

GetTodayEventsOp ==
    \E net \in CachedReadNets("events:today", FanOutNets) :
        Run("getTodayEvents", <<>>, net, GetTodayEvents(cache, <<>>, net))

GetWeekEventsOp ==
    \E net \in CachedReadNets("events:week", FanOutNets) :
        Run("getWeekEvents", <<>>, net, GetWeekEvents(cache, <<>>, net))

GetEventsInputs ==
    { [account_id |-> Str("acc-1"), calendar_ids |-> Str("cal-1"),
       start_date |-> RangeStart, end_date |-> RangeEnd],
      [account_id |-> Undefined, calendar_ids |-> Str("all"),
       start_date |-> RangeStart, end_date |-> RangeEnd],
      [account_id |-> Str("acc-1"), calendar_ids |-> Arr(<<"cal-1">>),
       start_date |-> RangeStart, end_date |-> RangeEnd],
      [account_id |-> Str("acc-1"), calendar_ids |-> Str("cal-1"),
       start_date |-> Undefined, end_date |-> RangeEnd] }

RangeKey(options) ==
    GenerateEventKey("events:range",
                     [options EXCEPT !.calendar_ids = OrElse(options.calendar_ids, Str("all"))])

GetEventsOp ==
    \E options \in GetEventsInputs :
        \E net \in CachedReadNets(RangeKey(options),
                                  IF IsStr(options.calendar_ids, "all")
                                  THEN FanOutNets
                                  ELSE Nets(FALSE, FALSE, FALSE,
                                            {Param(options.account_id)})) :
            Run("getEvents", options, net, GetEvents(options, cache, <<>>, net))

Lunch ==
    [title |-> Str("Lunch"), start_date |-> Str("2024-01-15T10:00:00Z"),
     end_date |-> Str("2024-01-15T10:30:30Z"), calendar_id |-> Str("cal-1"),
     description |-> Undefined, timezone |-> Undefined]

CreateEventInputs ==
    { Lunch,
      [Lunch EXCEPT !.calendar_id = Str("cal-9")],
      [Lunch EXCEPT !.end_date = Undefined, !.calendar_id = Undefined] }

CreateEventOp ==
    \E eventData \in CreateEventInputs :
        \E net \in { n \in Nets(FALSE, Miss("calendars"), TRUE, {}) : InOrder(n) } :
            Run("createEvent", eventData, net, CreateEvent(eventData, cache, <<>>, net))

(***************************************************************************)
(* Spec: every operation of the client, against an upstream service that   *)
(* may fail any request.  The clock stands still here; what the passing of *)
(* time does to the cache is in SpecFanOut and SpecTTL.                    *)
(***************************************************************************)
Init ==
    \E upstream \in {TwoAccounts(Faults), NoCalendars(Faults), NoAccounts(Faults)} :
        InitClient(upstream, Unlimited)

Next ==
    \/ ListCalendarsOp
    \/ ListAccountsOp
    \/ ListEventsOp
    \/ GetAllEventsInRangeOp
    \/ SearchEventsOp
    \/ GetTodayEventsOp
    \/ GetWeekEventsOp
    \/ GetEventsOp
    \/ CreateEventOp

Spec == Init /\ [][Next]_vars

(***************************************************************************)
(* SpecFanOut: the fan-out over three accounts, the clock and the timer.   *)
(***************************************************************************)
InitFanOut ==
    \E upstream \in {ThreeAccounts(Faults), TwoAccounts(Faults), NoCalendars(Faults),
                     NoAccounts(Faults)} :
        InitClient(upstream, Unlimited)

NextFanOut == GetAllEventsInRangeOp \/ CleanupTimer \/ Elapse

SpecFanOut == InitFanOut /\ [][NextFanOut]_vars

(***************************************************************************)
(* SpecTTL: MaxCalls calls of the operations that cache, against an        *)
(* upstream service that may refuse any request, and the clock.            *)
(***************************************************************************)
InitTTL == InitClient(TwoAccounts({"401"}), MaxCalls)

NextTTL ==
    \/ ListCalendarsOp
    \/ ListAccountsOp
    \/ SearchEventsOp
    \/ GetTodayEventsOp
    \/ GetWeekEventsOp
    \/ GetEventsOp
    \/ Elapse

SpecTTL == InitTTL /\ [][NextTTL]_vars

\* a step of an operation, as opposed to a step of the clock
OpStep == lastOp'.seq # lastOp.seq

(***************************************************************************)
(* Claims about the cache (SpecCache).                                     *)
(***************************************************************************)

\* C8: a get never returns the value of an entry whose expiresAt has passed: it
\* returns null and removes that entry (and nothing else); a get of an entry that
\* has not expired returns the last value set for the key and leaves the cache
\* unchanged.  "The last value set" is kept by the other two conjuncts: a set
\* writes its value and expiry under its key, and nothing else changes an entry
\* that stays in the cache.
C8_GetHonoursExpiry ==
    [][/\ (OpStep /\ lastOp'.op = "get") =>
            LET k == lastOp'.key
                present == \E i \in 1..Len(cache) : cache[i].key = k
                e == cache[CHOOSE i \in 1..Len(cache) : cache[i].key = k]
            IN  IF present /\ now <= e.expiresAt
                THEN lastOp'.value = e.value /\ cache' = cache
                ELSE /\ lastOp'.value = Null
                     /\ cache' = SelectSeq(cache, LAMBDA x : x.key # k)
       /\ (OpStep /\ lastOp'.op = "set") =>
            \E i \in 1..Len(cache') :
                cache'[i] = [key |-> lastOp'.key, value |-> lastOp'.value,
                             expiresAt |-> now + lastOp'.ttl * 1000, createdAt |-> now]
       /\ \A i \in 1..Len(cache), j \in 1..Len(cache') :
            (cache[i].key = cache'[j].key /\ cache[i] # cache'[j]) =>
                (lastOp'.op = "set" /\ lastOp'.key = cache[i].key)
      ]_vars

\* C8 witness: a get has just answered null and removed the expired entry of its
\* key, while the cache keeps an entry that expires at this very instant.
C8_WitnessExpiredGet ==
    /\ lastOp.op = "get"
    /\ lastOp.value = Null
    /\ lastOp.size = 2
    /\ Len(cache) = 1
    /\ cache[1].expiresAt = now
    /\ now > 0

\* C9: the number of entries never exceeds maxSize.
C9_CapacityInvariant == Len(cache) <= maxSize

\* C9 witness: a set on a full cache has evicted the first entry and the cache is
\* full again.
C9_WitnessFullAfterSet ==
    /\ lastOp.op = "set"
    /\ lastOp.size = maxSize
    /\ Len(cache) = maxSize
    /\ maxSize = MaxCap
    /\ cache[Len(cache)].key = lastOp.key

\* C10 (as claimed): every set on a cache holding maxSize entries, whether or not
\* the key is present, removes exactly one entry, the oldest-inserted one, and
\* leaves the cache holding the maxSize most recently inserted entries.
C10_EvictsOldestKeepsN ==
    [][(OpStep /\ lastOp'.op = "set" /\ Len(cache) = maxSize) =>
            /\ Len(cache') = maxSize
            /\ \E o \in 1..Len(cache) :
                    /\ \A j \in 1..Len(cache) : cache[o].createdAt <= cache[j].createdAt
                    /\ MapKeys(cache') = (MapKeys(cache) \ {cache[o].key}) \cup {lastOp'.key}
      ]_vars

(***************************************************************************)
(* Claims about the reads of the client (Spec).                            *)
(***************************************************************************)
ReadOps == {"listEvents", "getAllEventsInRange", "getTodayEvents", "getEvents", "searchEvents"}

IsSentinel(event) == event.title = "Busy (via Morgen)" \/ event.title = "Untitled Event"

NoSentinel(events) == \A i \in 1..Len(events) : ~IsSentinel(events[i])

\* C1: whatever a read operation returns, from upstream or from the cache, holds
\* no event titled "Busy (via Morgen)" or "Untitled Event"; for getWeekEvents this
\* is so of every day bucket.
C1_NoSentinelReturned ==
    /\ (lastOp.op \in ReadOps /\ ~lastOp.threw) => NoSentinel(lastOp.result)
    /\ (lastOp.op = "getWeekEvents" /\ ~lastOp.threw) =>
            \A day \in DOMAIN lastOp.result : NoSentinel(lastOp.result[day])

\* C1 witness: getWeekEvents has answered from the cache, with an event in a day
\* bucket, while the upstream service holds placeholder events.
C1_WitnessCachedWeek ==
    /\ lastOp.op = "getWeekEvents"
    /\ lastOp.calls = <<>>
    /\ Len(lastOp.result.Thursday) > 0
    /\ \E i \in 1..Len(up.events) : IsSentinel(up.events[i])

(***************************************************************************)
(* Claims about the fan-out (SpecFanOut).                                  *)
(***************************************************************************)
OwningAccounts == SeqToSet(Owners(up.calendars))

\* the last call was a getAllEventsInRange that came to query the accounts
ReachedFanOut ==
    /\ lastOp.op = "getAllEventsInRange"
    /\ lastOp.net.accounts = "ok"
    /\ lastOp.net.calendars = "ok"
    /\ Len(up.accounts) > 0
    /\ Len(up.calendars) > 0

\* the accounts whose events query failed
FailedAccounts == {a \in OwningAccounts : lastOp.net.events[a] # "ok"}

\* the last call issued the events query of the account
Queried(a) ==
    \E i \in 1..Len(lastOp.calls) :
        /\ lastOp.calls[i].endpoint = "/events/list"
        /\ lastOp.calls[i].accountId = a

RECURSIVE SucceededEvents(_)
\* the events, placeholders apart, of the accounts whose query succeeded, in the
\* order of the accounts
SucceededEvents(accountIds) ==
    IF Len(accountIds) = 0 THEN <<>>
    ELSE (IF Head(accountIds) \in FailedAccounts THEN <<>>
          ELSE SelectSeq(up.events, LAMBDA e : e.accountId = Head(accountIds)
                                                /\ ~IsSentinel(e)))
         \o SucceededEvents(Tail(accountIds))

\* the message of the error a failed request throws
FailureMessage(outcome) == Request(Get("/events/list"), outcome).error.message

\* C2 (as claimed): when the events query of one account fails and those of the
\* other accounts succeed, every account is still queried, the call does not
\* fail, and it returns the events of the accounts that succeeded, in account
\* order.
C2_OneFailureTolerated ==
    (ReachedFanOut /\ Cardinality(FailedAccounts) = 1 /\ Cardinality(OwningAccounts) > 1) =>
        /\ \A a \in OwningAccounts : Queried(a)
        /\ ~lastOp.threw
        /\ lastOp.result = SucceededEvents(Owners(up.calendars))

\* C3 (as claimed): whenever the events query of at least one account succeeded,
\* even with no event left after the filter, getAllEventsInRange does not fail
\* and returns the merged events.
C3_FailsOnlyIfAllFailed ==
    (ReachedFanOut /\ FailedAccounts # OwningAccounts) =>
        /\ ~lastOp.threw
        /\ lastOp.result = SucceededEvents(Owners(up.calendars))

\* C4: when the events query of every account fails, getAllEventsInRange has
\* queried every account and fails with one error, whose message names every
\* account and carries the message of its failure.
C4_AllFailedEnumerated ==
    (ReachedFanOut /\ FailedAccounts = OwningAccounts) =>
        /\ \A a \in OwningAccounts : Queried(a)
        /\ lastOp.threw
        /\ \A a \in OwningAccounts :
            /\ Includes(lastOp.error.message, a)
            /\ Includes(lastOp.error.message, FailureMessage(lastOp.net.events[a]))

\* C4 witness: the queries of three accounts have failed, not all in the same way,
\* and the call has failed.
C4_WitnessThreeFailed ==
    /\ ReachedFanOut
    /\ Cardinality(OwningAccounts) = 3
    /\ FailedAccounts = OwningAccounts
    /\ \E a, b \in OwningAccounts : lastOp.net.events[a] # lastOp.net.events[b]
    /\ lastOp.threw
    /\ Len(lastOp.errors) = 3

(***************************************************************************)
(* Claims about createEvent (Spec).                                        *)
(***************************************************************************)
Created == lastOp.op = "createEvent" /\ ~lastOp.threw

Prefixed(key) == StartsWith(key, "events:") \/ StartsWith(key, "search:")

\* C5: right after a createEvent that succeeded, the cache holds no entry whose
\* key begins with "events:" or "search:".
C5_CreateInvalidates == Created => \A i \in 1..Len(cache) : ~Prefixed(cache[i].key)

\* C5 witness: a createEvent has succeeded on a cache that held events:today,
\* events:week, an events:range:* key and a search:* key.
C5_WitnessAllKindsCached ==
    /\ Created
    /\ \E i \in 1..Len(lastOp.before) : lastOp.before[i].key = "events:today"
    /\ \E i \in 1..Len(lastOp.before) : lastOp.before[i].key = "events:week"
    /\ \E i \in 1..Len(lastOp.before) : StartsWith(lastOp.before[i].key, "events:range:")
    /\ \E i \in 1..Len(lastOp.before) : StartsWith(lastOp.before[i].key, "search:")

\* C6: the invalidation of a createEvent that succeeded leaves the calendars and
\* accounts entries as they were (key, value and expiry), removes only entries
\* whose key begins with "events:" or "search:", and adds none.
C6_InvalidationFrame ==
    Created =>
        /\ \A i \in 1..Len(lastOp.before) :
                lastOp.before[i].key \in {"calendars", "accounts"} =>
                    \E j \in 1..Len(cache) : cache[j] = lastOp.before[i]
        /\ \A i \in 1..Len(lastOp.before) :
                (\A j \in 1..Len(cache) : cache[j] # lastOp.before[i]) =>
                    Prefixed(lastOp.before[i].key)
        /\ \A j \in 1..Len(cache) : \E i \in 1..Len(lastOp.before) : lastOp.before[i] = cache[j]

\* C6 witness: a createEvent has succeeded on a cache that held the calendars, the
\* accounts and events:today, and the cache still holds the calendars and the
\* accounts.
C6_WitnessListsKept ==
    /\ Created
    /\ {"calendars", "accounts", "events:today"} \subseteq MapKeys(lastOp.before)
    /\ MapKeys(cache) = {"calendars", "accounts"}

(***************************************************************************)
(* Claims about the time an answer stays cached (SpecTTL).                 *)
(***************************************************************************)
CachedOps == {"listCalendars", "listAccounts", "getTodayEvents", "getWeekEvents",
              "getEvents", "searchEvents"}

\* the time in seconds an answer of the operation stays cached
TTLOf(op) ==
    CASE op \in {"listCalendars", "listAccounts"} -> 3600
      [] op \in {"getTodayEvents", "getWeekEvents"} -> 120
      [] op = "getEvents" -> 60
      [] op = "searchEvents" -> 30

\* the call succeeded: it threw nothing and swallowed no failure
Succeeded(op) == ~op.threw /\ op.caught = NoError

\* this step is a call identical to the last, which had fetched its answer; both
\* succeeded
RepeatsFetch ==
    /\ lastOp' # lastOp
    /\ lastOp.op \in CachedOps
    /\ lastOp'.op = lastOp.op
    /\ lastOp'.args = lastOp.args
    /\ lastOp.calls # <<>>
    /\ Succeeded(lastOp)
    /\ Succeeded(lastOp')

\* C7: of two consecutive identical successful calls of a cached operation, the
\* second, when it is made within the TTL of the operation after the first, issues
\* no request and returns the answer of the first; when it is made later, it
\* issues requests again.
C7_CachedForTTL ==
    [][RepeatsFetch =>
            IF lastOp'.at - lastOp.at <= TTLOf(lastOp.op) * 1000
            THEN lastOp'.calls = <<>> /\ lastOp'.result = lastOp.result
            ELSE lastOp'.calls # <<>>
      ]_vars

\* C7 witness: getTodayEvents, called again after the 120 s of its answer but
\* within the hour of the calendars and accounts, has queried the events again.
C7_WitnessRefetchedToday ==
    /\ lastOp.op = "getTodayEvents"
    /\ left = 0
    /\ lastOp.at > 120 * 1000
    /\ lastOp.calls # <<>>
    /\ \A i \in 1..Len(lastOp.calls) : lastOp.calls[i].endpoint = "/events/list"
    /\ \E i \in 1..Len(cache) : cache[i].key = "calendars" /\ cache[i].createdAt = 0

(***************************************************************************)
(* SpecCalls: a bounded number of calls, getEvents and createEvent being   *)
(* given every shape of input their validation tells apart.                *)
(* SpecRange: the calls of getEvents alone, with time passing between      *)
(* them.                                                                   *)
(***************************************************************************)
GetEventsShapes ==
    GetEventsInputs \cup
    { [account_id |-> Str("acc-1"), calendar_ids |-> Str("all"),
       start_date |-> RangeStart, end_date |-> RangeEnd],
      [account_id |-> Undefined, calendar_ids |-> Str("cal-1"),
       start_date |-> RangeStart, end_date |-> RangeEnd],
      [account_id |-> Str("acc-1"), calendar_ids |-> Arr(<<"cal-1", "cal-2">>),
       start_date |-> RangeStart, end_date |-> RangeEnd],
      [account_id |-> Str("acc-1"), calendar_ids |-> Str("cal-1"),
       start_date |-> RangeStart, end_date |-> Undefined],
      [account_id |-> Str("acc-1"), calendar_ids |-> Undefined,
       start_date |-> RangeStart, end_date |-> RangeEnd],
      [account_id |-> Undefined, calendar_ids |-> Arr(<<"cal-1">>),
       start_date |-> Str(""), end_date |-> RangeEnd],
      [account_id |-> Str("acc-1"), calendar_ids |-> Str("[\"cal-1\",\"cal-2\"]"),
       start_date |-> RangeStart, end_date |-> RangeEnd] }

GetEventsShapesOp ==
    \E options \in GetEventsShapes \ GetEventsInputs :
        \E net \in CachedReadNets(RangeKey(options),
                                  IF IsStr(options.calendar_ids, "all")
                                  THEN FanOutNets
                                  ELSE Nets(FALSE, FALSE, FALSE,
                                            {Param(options.account_id)})) :
            Run("getEvents", options, net, GetEvents(options, cache, <<>>, net))

CreateEventShapes ==
    CreateEventInputs \cup
    { [Lunch EXCEPT !.title = Undefined],
      [Lunch EXCEPT !.title = Str(""), !.end_date = Undefined],
      [Lunch EXCEPT !.start_date = Undefined, !.calendar_id = Undefined],
      [Lunch EXCEPT !.end_date = Undefined],
      [Lunch EXCEPT !.calendar_id = Undefined] }

CreateEventShapesOp ==
    \E eventData \in CreateEventShapes \ CreateEventInputs :
        \E net \in { n \in Nets(FALSE, Miss("calendars"), TRUE, {}) : InOrder(n) } :
            Run("createEvent", eventData, net, CreateEvent(eventData, cache, <<>>, net))

InitCalls ==
    \E upstream \in {TwoAccounts(Faults), NoCalendars(Faults), NoAccounts(Faults)} :
        InitClient(upstream, MaxCalls)

NextCalls ==
    \/ ListCalendarsOp
    \/ ListAccountsOp
    \/ ListEventsOp
    \/ GetAllEventsInRangeOp
    \/ SearchEventsOp
    \/ GetTodayEventsOp
    \/ GetWeekEventsOp
    \/ GetEventsOp
    \/ GetEventsShapesOp
    \/ CreateEventOp
    \/ CreateEventShapesOp

SpecCalls == InitCalls /\ [][NextCalls]_vars

NextRange ==
    \/ GetEventsOp
    \/ GetEventsShapesOp
    \/ Elapse

InitRange == InitClient(TwoAccounts({"401"}), MaxCalls)

SpecRange == InitRange /\ [][NextRange]_vars

(***************************************************************************)
(* SpecSearch: the calls of searchEvents, against a calendar that holds    *)
(* more matching events than the default limit, or against three accounts. *)
(***************************************************************************)
Crowd == DefaultMaxResults + 2

\* one account whose calendar holds Crowd events, all but the second naming a
\* stand-up in the title, the description or the location
Crowded(faults) ==
    [accounts |-> <<Account("acc-1")>>,
     calendars |-> <<Calendar("cal-1", "acc-1")>>,
     events |-> [i \in 1..Crowd |->
                    CASE i = 2 -> Event(ToString(i), "Client Review", "", "Room 2", i,
                                        "cal-1", "acc-1")
                      [] i # 2 /\ i % 3 = 0 -> Event(ToString(i), "Team Standup", "", "", i,
                                                     "cal-1", "acc-1")
                      [] i # 2 /\ i % 3 = 1 -> Event(ToString(i), "Sync", "Daily stand-up", "",
                                                     i, "cal-1", "acc-1")
                      [] OTHER -> Event(ToString(i), "Sync", "", "Standing desk", i,
                                        "cal-1", "acc-1")],
     faults |-> faults]

SearchShapes ==
    { [query |-> q, options |-> [start_date |-> RangeStart, end_date |-> RangeEnd,
                                 max_results |-> m]] :
        q \in {"STAND", "review"}, m \in {Undefined, Num(1), Num(2)} }
    \cup { [query |-> "quarterly", options |-> [start_date |-> Undefined,
                                                end_date |-> Undefined,
                                                max_results |-> Undefined]] }

SearchShapesOp ==
    \E in \in SearchShapes :
        \E net \in CachedReadNets(SearchKey(in), FanOutNets) :
            Run("searchEvents", in, net, SearchEvents(in.query, in.options, cache, <<>>, net))

InitSearch ==
    \E upstream \in {Crowded({"401"}), ThreeAccounts({"401"})} :
        InitClient(upstream, MaxCalls)

NextSearch == SearchShapesOp

SpecSearch == InitSearch /\ [][NextSearch]_vars

(***************************************************************************)
(* SpecWeek: the calls of getWeekEvents, with time passing between them,   *)
(* against a calendar with events on every weekday or against three        *)
(* accounts.                                                               *)
(***************************************************************************)
NextWeek ==
    \/ GetWeekEventsOp
    \/ Elapse

SpecWeek == InitSearch /\ [][NextWeek]_vars

(***************************************************************************)
(* SpecRequest: request itself and the operations that pass its error on   *)
(* as it is, against an upstream service that may refuse a request (401,   *)
(* 429), be out of reach, or answer 2xx with a body that is no JSON.       *)
(***************************************************************************)
RequestFaults == {"401", "429", "network", "body"}

RequestEndpoints ==
    {"/calendars/list", "/integrations/accounts/list", "/events/list"}

\* the outcomes of a call that issues one request, to this endpoint
OneRequest(endpoint, outcome) ==
    [accounts |-> IF endpoint = "/integrations/accounts/list" THEN outcome ELSE "ok",
     calendars |-> IF endpoint = "/calendars/list" THEN outcome ELSE "ok",
     create |-> "ok",
     events |-> [t \in EventTargets |->
                    IF endpoint = "/events/list" /\ t = "" THEN outcome ELSE "ok"]]

\* request(endpoint) called on its own: the cache is not involved
RequestOp ==
    \E endpoint \in RequestEndpoints, outcome \in Outcomes :
        LET req == [method |-> "GET", endpoint |-> endpoint, accountId |-> "",
                    calendarIds |-> "", start |-> "", end |-> ""]
            answered(response) ==
                [cache |-> cache, calls |-> <<req>>, threw |-> response.threw,
                 error |-> response.error, result |-> response.data]
        IN  Run("request", endpoint, OneRequest(endpoint, outcome),
                answered(Request(req, outcome)))

InitRequest == InitClient(TwoAccounts(RequestFaults), MaxCalls)

NextRequest ==
    \/ RequestOp
    \/ ListCalendarsOp
    \/ ListAccountsOp
    \/ CreateEventOp

SpecRequest == InitRequest /\ [][NextRequest]_vars

(***************************************************************************)
(* The server, index.js.  The file holds two entry scripts: the class      *)
(* MorgenMCPServer ("class") and a script that sets the handlers up at top *)
(* level ("script").  A tool call is answered with a text, modelled by its *)
(* headline and what it lists, or fails with an McpError.                  *)
(***************************************************************************)
Variants == {"class", "script"}

McpError(code, message) == [message |-> message, status |-> 0, code |-> code]

\* the catch of the CallToolRequestSchema handler
ToolError(error) ==
    IF "code" \in DOMAIN error THEN error
    ELSE IF error.status = 401
    THEN McpError("InvalidRequest",
                  "Invalid API key. Please check your Morgen API key configuration.")
    ELSE IF error.status = 429
    THEN McpError("InvalidRequest", "Rate limit exceeded. Please try again later.")
    ELSE McpError("InternalError", "Tool execution failed: " \o error.message)

\* { content: [{ type: 'text', text }] }
Text(headline, listed) == [text |-> headline, listed |-> listed]

\* obj[name], undefined where the object has no such property
Prop(obj, name) == IF name \in DOMAIN obj THEN obj[name] ELSE Undefined

\* x > n
Gt(x, n) == x.t = "number" /\ x.v > n

NotConfigured ==
    "API key not configured. Please set MORGEN_API_KEY in Claude Desktop extension settings."
NoWeekText == "No events scheduled for this week"

ListCalendarsTool(c, calls, net) ==
    LET told(calendars) ==
            IF calendars.threw THEN calendars
            ELSE Return(calendars.cache, calendars.calls,
                        IF Len(calendars.result) > 0
                        THEN Text("Found " \o ToString(Len(calendars.result)) \o " calendar(s):",
                                  calendars.result)
                        ELSE Text("No calendars found. Please connect your calendars at https://platform.morgen.so",
                                  <<>>))
    IN  told(ListCalendars(c, calls, net))

\* the get_week_events tool.  events is the object getWeekEvents returns, which
\* has no length: events.length is undefined.  formatEventsByDay calls
\* events.forEach, which an object has not
GetWeekEventsTool(c, calls, net) ==
    LET length == Undefined
        told(events) ==
            IF Gt(length, 0)
            THEN Throw(events.cache, events.calls,
                       Error("events.forEach is not a function"))
            ELSE Return(events.cache, events.calls, Text(NoWeekText, <<>>))
    IN  told(GetWeekEvents(c, calls, net))

RequiredParams == <<"account_id", "calendar_id", "title", "start_time">>

\* the properties createEvent reads of the object it is given
AsEventData(obj) ==
    [title |-> Prop(obj, "title"), start_date |-> Prop(obj, "start_date"),
     end_date |-> Prop(obj, "end_date"), calendar_id |-> Prop(obj, "calendar_id"),
     description |-> Prop(obj, "description"), timezone |-> Prop(obj, "timezone")]

\* startDate.setHours(startDate.getHours() + 1); startDate.toISOString()
AnHourAfter(start) == Str(ToStr(start) \o " + 1h")

\* the create_event tool
CreateEventTool(args, c, calls, net) ==
    LET eventData ==
            [accountId |-> args.account_id,
             calendarId |-> args.calendar_id,
             title |-> args.title,
             start |-> args.start_time,
             end |-> IF Truthy(args.end_time) THEN args.end_time
                     ELSE AnHourAfter(args.start_time),
             description |-> args.description,
             location |-> args.location,
             timeZone |-> OrElse(args.time_zone, Str("UTC"))]
        told(createdEvent) ==
            IF createdEvent.threw THEN createdEvent
            ELSE Return(createdEvent.cache, createdEvent.calls,
                        Text("Event created successfully!", <<createdEvent.result>>))
    IN  IF \E i \in 1..Len(RequiredParams) : ~Truthy(args[RequiredParams[i]])
        THEN Throw(c, calls,
                   McpError("InvalidParams",
                            RequiredParams[CHOOSE i \in 1..Len(RequiredParams) :
                                /\ ~Truthy(args[RequiredParams[i]])
                                /\ \A j \in 1..(i - 1) : Truthy(args[RequiredParams[j]])]
                            \o " parameter is required"))
        ELSE told(CreateEvent(AsEventData(eventData), c, calls, net))

\* the CallToolRequestSchema handler around a tool: the script answers every call
\* with a text when it has no client; what a tool throws goes through the catch
Handler(r) ==
    IF ~server.apiClient THEN Return(cache, <<>>, Text(NotConfigured, <<>>))
    ELSE IF r.threw THEN Throw(r.cache, r.calls, ToolError(r.error))
    ELSE r

\* the entry script runs: it reads MORGEN_API_KEY, makes the client and connects
\* the transport.  Without the key the class exits and the script goes on
\* without a client
Start ==
    /\ server.state = "loading"
    /\ server' = IF server.variant = "class" /\ ~server.apiKey
                 THEN [server EXCEPT !.state = "exited"]
                 ELSE [server EXCEPT !.state = "running", !.apiClient = server.apiKey]
    /\ UNCHANGED <<now, cache, maxSize, up, lastOp, left, task>>

ListCalendarsCall ==
    /\ server.state = "running"
    /\ \E net \in Nets(FALSE, Miss("calendars") /\ server.apiClient, FALSE, {}) :
           Run("list_calendars", <<>>, net, Handler(ListCalendarsTool(cache, <<>>, net)))

GetWeekEventsCall ==
    /\ server.state = "running"
    /\ \E net \in IF server.apiClient THEN CachedReadNets("events:week", FanOutNets)
                  ELSE Nets(FALSE, FALSE, FALSE, {}) :
           Run("get_week_events", <<>>, net, Handler(GetWeekEventsTool(cache, <<>>, net)))

Dinner ==
    [account_id |-> Str("acc-1"), calendar_id |-> Str("cal-1"), title |-> Str("Dinner"),
     start_time |-> Str("2024-01-15T10:00:00Z"), end_time |-> Str("2024-01-15T10:30:30Z"),
     description |-> Undefined, location |-> Undefined, time_zone |-> Undefined]

CreateEventArgs ==
    { Dinner,
      [Dinner EXCEPT !.end_time = Undefined],
      [Dinner EXCEPT !.title = Undefined],
      [Dinner EXCEPT !.calendar_id = Str("cal-9")] }

CreateEventCall ==
    /\ server.state = "running"
    /\ \E args \in CreateEventArgs :
           \E net \in { n \in Nets(FALSE, Miss("calendars") /\ server.apiClient,
                                   server.apiClient, {}) : InOrder(n) } :
               Run("create_event", args, net, Handler(CreateEventTool(args, cache, <<>>, net)))

InitServer ==
    \E variant \in Variants, apiKey \in BOOLEAN :
        InitProcess(TwoAccounts({"401"}), MaxCalls,
                    [variant |-> variant, apiKey |-> apiKey, state |-> "loading",
                     apiClient |-> FALSE])

NextServer ==
    \/ Start
    \/ ListCalendarsCall
    \/ GetWeekEventsCall
    \/ CreateEventCall

SpecServer == InitServer /\ [][NextServer]_vars

(***************************************************************************)
(* Claims about the failures of the client (Spec, SpecCalls).              *)
(***************************************************************************)
\* the last call met a failure on its way to the events: a listing that failed or
\* came back empty, or the events query of every account failed
InternalFailure ==
    \/ lastOp.net.accounts # "ok"
    \/ lastOp.net.calendars # "ok"
    \/ Len(up.accounts) = 0
    \/ Len(up.calendars) = 0
    \/ FailedAccounts = OwningAccounts

Weekdays == {"Monday", "Tuesday", "Wednesday", "Thursday", "Friday", "Saturday", "Sunday"}

\* C11: getTodayEvents and getWeekEvents never throw; when the call met an
\* internal failure getTodayEvents returns the empty sequence and getWeekEvents
\* the mapping of the seven weekdays to empty sequences.
C11_SummariesBestEffort ==
    /\ lastOp.op = "getTodayEvents" =>
            /\ ~lastOp.threw
            /\ InternalFailure => lastOp.result = <<>>
    /\ lastOp.op = "getWeekEvents" =>
            /\ ~lastOp.threw
            /\ InternalFailure => lastOp.result = [day \in Weekdays |-> <<>>]

\* C11 witness: getWeekEvents has answered the all-empty mapping after the
\* calendar listing was refused, the accounts having been listed.
C11_WitnessWeekDegraded ==
    /\ lastOp.op = "getWeekEvents"
    /\ lastOp.net.calendars = "401"
    /\ Len(lastOp.calls) = 2
    /\ lastOp.result = [day \in Weekdays |-> <<>>]

RequiredMessage == "start_date, end_date, account_id, and calendar_ids are required"
AccountRequiredMessage == "account_id is required when calendar_ids is \"all\""
FormatMessage ==
    "calendar_ids must be a string. Use \"all\" for all calendars or comma-separated IDs like \"cal-1,cal-2\""

\* getEvents refuses these options on entry, with this message
Refused(options) ==
    IF \/ ~Truthy(options.start_date)
       \/ ~Truthy(options.end_date)
       \/ ~Truthy(options.calendar_ids)
    THEN {RequiredMessage}
    ELSE IF ~Truthy(options.account_id) /\ IsStr(options.calendar_ids, "all")
    THEN {AccountRequiredMessage}
    ELSE {}

AllCalendars(x) == IsStr(x, "all") \/ IsStr(x, "ALL")

\* the call, made in the present state of the cache, runs the fan-out
FansOut(op, args) ==
    CASE op = "getAllEventsInRange" -> TRUE
      [] op = "listEvents" ->
            AllCalendars(args.calendarIds) /\ Truthy(args.start) /\ Truthy(args.end)
      [] op = "searchEvents" -> Miss(SearchKey(args))
      [] op = "getTodayEvents" -> Miss("events:today")
      [] op = "getWeekEvents" -> Miss("events:week")
      [] op = "getEvents" ->
            /\ Refused(args) = {}
            /\ Miss(RangeKey(args))
            /\ AllCalendars(args.calendar_ids)
      [] OTHER -> FALSE

\* the configuration error the fan-out meets, given what its listings come to
ConfigurationErrors(net) ==
    IF net.accounts # "ok" THEN {}
    ELSE IF Len(up.accounts) = 0 THEN {NoAccountsMessage}
    ELSE IF net.calendars = "ok" /\ Len(up.calendars) = 0 THEN {NoCalendarsMessage}
    ELSE {}

\* the validation or configuration error that the call, made in the present state
\* of the cache, meets (at most one)
Due(op, args, net) ==
    IF FansOut(op, args) THEN ConfigurationErrors(net)
    ELSE CASE op = "createEvent" ->
                { "Missing required field: " \o RequiredFields[i] :
                    i \in {FirstMissing(args)} \ {0} }
           [] op = "getEvents" ->
                IF Refused(args) # {} THEN Refused(args)
                ELSE IF args.calendar_ids.t # "string" /\ Miss(RangeKey(args))
                THEN {FormatMessage}
                ELSE {}
           [] op = "listEvents" ->
                IF /\ AllCalendars(args.calendarIds)
                   /\ net.calendars = "ok"
                   /\ Len(up.calendars) = 0
                THEN {NoCalendarsMessage}
                ELSE {}
           [] OTHER -> {}

\* this step is a call (of those SpecCalls counts)
CallStep == left' = left - 1

\* the call of this step fails to its caller with the validation or configuration
\* error it meets, if it is one of ops
Propagates(ops) ==
    (CallStep /\ lastOp'.op \in ops) =>
        \A message \in Due(lastOp'.op, lastOp'.args, lastOp'.net) :
            /\ lastOp'.threw
            /\ lastOp'.error = Error(message)

RequestError(outcome) == Request(Get("/events/list"), outcome).error

AllFailedPrefix == "Failed to fetch events from all accounts:"

\* the call, made in the present state of the cache, issues the one events query
\* of getEvents for calendars given by id
QueriesDirectly(op, args) ==
    /\ op = "getEvents"
    /\ Refused(args) = {}
    /\ Miss(RangeKey(args))
    /\ ~AllCalendars(args.calendar_ids)
    /\ args.calendar_ids.t = "string"

\* the fan-out of a call with these outcomes comes to query the accounts
Fans(net) ==
    /\ net.accounts = "ok"
    /\ net.calendars = "ok"
    /\ Len(up.accounts) > 0
    /\ Len(up.calendars) > 0

\* the call (op, args), which this step makes with the outcomes net, fails to its
\* caller with the error of the failure it meets
Surfaces(op, args, net) ==
    LET failed(error) == lastOp'.threw /\ lastOp'.error = error
    IN  /\ FansOut(op, args) =>
            /\ \A message \in ConfigurationErrors(net) : failed(Error(message))
            /\ net.accounts # "ok" => failed(RequestError(net.accounts))
            /\ (net.accounts = "ok" /\ Len(up.accounts) > 0 /\ net.calendars # "ok") =>
                    failed(RequestError(net.calendars))
            /\ (Fans(net) /\ \A a \in OwningAccounts : net.events[a] # "ok") =>
                    /\ lastOp'.threw
                    /\ StartsWith(lastOp'.error.message, AllFailedPrefix)
                    /\ \A a \in OwningAccounts :
                           Includes(lastOp'.error.message,
                                    a \o ": " \o RequestError(net.events[a]).message)
        /\ QueriesDirectly(op, args) =>
            LET outcome == net.events[Param(args.account_id)]
            IN  outcome # "ok" => failed(RequestError(outcome))

\* C13: searchEvents and getEvents never swallow a failure: when the fan-out or
\* the events query they depend on fails (a configuration error, a listing that
\* fails, the query of every account failing, the one query of getEvents
\* failing), the call fails to its caller with that error.
C13_NeverSwallow ==
    [][(CallStep /\ lastOp'.op \in {"searchEvents", "getEvents"}) =>
           Surfaces(lastOp'.op, lastOp'.args, lastOp'.net)]_vars

\* C13 witness: getEvents for one calendar has failed to its caller with the
\* transport error of its only request.
C13_WitnessNetworkError ==
    /\ lastOp.op = "getEvents"
    /\ IsStr(lastOp.args.calendar_ids, "cal-1")
    /\ Len(lastOp.calls) = 1
    /\ lastOp.net.events[Param(lastOp.args.account_id)] = "network"
    /\ lastOp.threw
    /\ lastOp.error = RequestError("network")

\* C14 (as claimed): in every state of the cache, getEvents called with its
\* calendar ids given as a list (its other parameters being valid) fails with the
\* validation error that names the comma-separated string format, issues no
\* request and returns no events.
C14_ListRejected ==
    (/\ lastOp.op = "getEvents"
     /\ lastOp.args.calendar_ids.t = "array"
     /\ Refused(lastOp.args) = {}) =>
        /\ lastOp.threw
        /\ lastOp.error = Error(FormatMessage)
        /\ lastOp.calls = <<>>

LacksFirst(eventData, i) ==
    LET fields == <<eventData.title, eventData.start_date, eventData.end_date,
                    eventData.calendar_id>>
    IN  /\ ~Truthy(fields[i])
        /\ \A j \in 1..(i - 1) : Truthy(fields[j])

\* C16: createEvent given event data that lacks any of title, start date, end
\* date and calendar id fails with the error that names the first of them that
\* is missing, in that order, without a request (neither the calendar listing
\* nor the create call) and without a change of the cache.
C16_CreateValidated ==
    [][(CallStep /\ lastOp'.op = "createEvent") =>
           \A i \in 1..4 :
               LacksFirst(lastOp'.args, i) =>
                   /\ lastOp'.threw
                   /\ lastOp'.error =
                          Error("Missing required field: "
                                \o <<"title", "start_date", "end_date", "calendar_id">>[i])
                   /\ lastOp'.calls = <<>>
                   /\ cache' = cache]_vars

\* C16 witness: createEvent given neither end date nor calendar id has failed,
\* naming the end date, with no request, the cache holding entries.
C16_WitnessEndDateNamed ==
    /\ lastOp.op = "createEvent"
    /\ ~Truthy(lastOp.args.end_date)
    /\ ~Truthy(lastOp.args.calendar_id)
    /\ lastOp.threw
    /\ lastOp.error = Error("Missing required field: end_date")
    /\ lastOp.calls = <<>>
    /\ Len(cache) > 0

\* the ids of the calendars that listCalendars returns
CalendarIds == {up.calendars[i].id : i \in 1..Len(up.calendars)}

\* the last call issued this request
Issued(method, endpoint) ==
    \E i \in 1..Len(lastOp.calls) :
        /\ lastOp.calls[i].method = method
        /\ lastOp.calls[i].endpoint = endpoint

\* C17: createEvent given (complete event data with) a calendar id that is not
\* among the calendars listCalendars returns fails with the error that says the
\* calendar was not found, and POST /events/create is not issued.
C17_UnknownCalendar ==
    (/\ lastOp.op = "createEvent"
     /\ \A i \in 1..4 : ~LacksFirst(lastOp.args, i)
     /\ lastOp.net.calendars = "ok"
     /\ ToStr(lastOp.args.calendar_id) \notin CalendarIds) =>
        /\ lastOp.threw
        /\ lastOp.error =
               Error("Calendar with ID " \o ToStr(lastOp.args.calendar_id) \o " not found")
        /\ ~Issued("POST", "/events/create")

\* C17 witness: createEvent for calendar cal-9 has failed so, the upstream
\* service having calendars and the calendar listing having been fetched for it.
C17_WitnessNotFound ==
    /\ lastOp.op = "createEvent"
    /\ IsStr(lastOp.args.calendar_id, "cal-9")
    /\ Len(up.calendars) > 0
    /\ Issued("GET", "/calendars/list")
    /\ lastOp.threw
    /\ lastOp.error = Error("Calendar with ID cal-9 not found")

\* C25 (as claimed): getEvents given for its calendar ids a string that encodes
\* a JSON array, such as '["cal-1","cal-2"]', fails with an error that says a
\* JSON array string was given, and does not send that string upstream.
C25_JsonArrayStringRejected ==
    (/\ lastOp.op = "getEvents"
     /\ Refused(lastOp.args) = {}
     /\ lastOp.args.calendar_ids.t = "string"
     /\ StartsWith(lastOp.args.calendar_ids.v, "[")) =>
        /\ lastOp.threw
        /\ Includes(lastOp.error.message, "JSON array")
        /\ \A i \in 1..Len(lastOp.calls) :
               lastOp.calls[i].endpoint = "/events/list" =>
                   lastOp.calls[i].calendarIds # lastOp.args.calendar_ids.v

(***************************************************************************)
(* Claims about the results of searchEvents (SpecSearch) and of            *)
(* getWeekEvents.                                                          *)
(***************************************************************************)
\* the event holds the query in its title, its description or its location, the
\* case of the letters apart
Holds(event, query) ==
    \E field \in {event.title, event.description, event.location} :
        Includes(ToLowerCase(field), ToLowerCase(query))

\* the first n elements of a sequence
FirstN(a, n) == [i \in 1..(IF n < Len(a) THEN n ELSE Len(a)) |-> a[i]]

\* the limit of a search: max_results, 20 when none is given
Limit(options) ==
    IF options.max_results.t = "undefined" THEN 20 ELSE options.max_results.v

\* the last call was a searchEvents that the cache did not answer and that
\* succeeded
Searched ==
    /\ lastOp.op = "searchEvents"
    /\ ~lastOp.threw
    /\ Issued("GET", "/events/list")

WeekdayOf(day) ==
    <<"Thursday", "Friday", "Saturday", "Sunday", "Monday", "Tuesday", "Wednesday">>[(day % 7) + 1]

\* the last call was a getWeekEvents that fetched the events and did not fail
WeekFetched ==
    /\ lastOp.op = "getWeekEvents"
    /\ Issued("GET", "/events/list")
    /\ lastOp.caught = NoError

\* how many times the event is in the bucket
Times(bucket, event) == Cardinality({i \in 1..Len(bucket) : bucket[i] = event})

OutcomeOf(i) ==
    LET req == lastOp.calls[i]
    IN  CASE req.endpoint = "/integrations/accounts/list" -> lastOp.net.accounts
          [] req.endpoint = "/calendars/list" -> lastOp.net.calendars
          [] req.endpoint = "/events/create" -> lastOp.net.create
          [] req.endpoint = "/events/list" -> lastOp.net.events[req.accountId]

\* the last call failed, and of its requests none failed but with this non-2xx
\* status, and one did
FailedOnStatus(status) ==
    /\ lastOp.threw
    /\ \E i \in 1..Len(lastOp.calls) : OutcomeOf(i) # "ok"
    /\ \A i \in 1..Len(lastOp.calls) :
           OutcomeOf(i) # "ok" => RequestError(OutcomeOf(i)).status = status

\* C20 (as claimed): when listCalendars, listAccounts, listEvents, getEvents,
\* searchEvents or createEvent fails because a request was answered with a
\* non-2xx status, the error its caller gets carries that status, also when the
\* request was the events query of an account inside the fan-out.
C20_StatusPreserved ==
    lastOp.op \in {"listCalendars", "listAccounts", "listEvents", "getEvents",
                   "searchEvents", "createEvent"} =>
        \A status \in {401} : FailedOnStatus(status) => lastOp.error.status = status

\* the last call failed on a request, the last it issued, which came to this
FailedRequest(outcome) ==
    /\ lastOp.threw
    /\ lastOp.calls # <<>>
    /\ OutcomeOf(Len(lastOp.calls)) = outcome
    /\ outcome # "ok"

IsUpstreamError(error) ==
    /\ error.status \notin 200..299
    /\ error.status # 0
    /\ Includes(error.message, ToString(error.status))

IsNetworkError(error) ==
    /\ error.status = 0
    /\ StartsWith(error.message, "Network error:")

\* C21 (as claimed): every failure of request is either an upstream error that
\* carries the non-2xx status, its message holding that status, or a network
\* error with no status and a message that begins "Network error:"; a failure
\* that was no non-2xx answer has no status, and a non-2xx answer is not
\* reported as a network error.
C21_ErrorKinds ==
    lastOp.op \in {"request", "listCalendars", "listAccounts", "createEvent"} =>
        \A outcome \in RequestFaults :
            FailedRequest(outcome) =>
                /\ IsUpstreamError(lastOp.error) \/ IsNetworkError(lastOp.error)
                /\ StatusOf(outcome) = 0 => lastOp.error.status = 0
                /\ StatusOf(outcome) # 0 =>
                        /\ lastOp.error.status = StatusOf(outcome)
                        /\ ~IsNetworkError(lastOp.error)

(***************************************************************************)
(* Claims about the server (SpecServer).                                   *)
(***************************************************************************)
ToolNames == {"list_calendars", "get_week_events", "create_event"}

\* C22 (as claimed): when MORGEN_API_KEY is not set, the server fails when it
\* starts: it never comes to run, and no tool call is ever answered.
C22_MissingKeyFailsStartup ==
    ~server.apiKey =>
        /\ server.state \in {"loading", "exited"}
        /\ lastOp.op \notin ToolNames

\* the requests of this kind that the last call issued
Requests(method, endpoint) ==
    {i \in 1..Len(lastOp.calls) :
        lastOp.calls[i].method = method /\ lastOp.calls[i].endpoint = endpoint}

\* C23 (as claimed): a create_event tool call that gives account_id, calendar_id,
\* title and start_time, for a calendar that exists, the upstream service
\* answering every request, passes the validation of createEvent, issues exactly
\* one POST /events/create and returns the created event.
C23_CreateEventPassThrough ==
    (/\ lastOp.op = "create_event"
     /\ server.apiClient
     /\ \A i \in 1..Len(RequiredParams) : Truthy(lastOp.args[RequiredParams[i]])
     /\ ToStr(lastOp.args.calendar_id) \in CalendarIds
     /\ lastOp.net.calendars = "ok"
     /\ lastOp.net.create = "ok") =>
        /\ ~lastOp.threw
        /\ Cardinality(Requests("POST", "/events/create")) = 1
        /\ Len(lastOp.result.listed) = 1
        /\ lastOp.result.listed[1].title = ToStr(lastOp.args.title)

\* the week that getWeekEvents returned to the last call, when it fetched it or
\* found it in the cache (the clock stands still): the value under "events:week"
WeekReturned == {cache[i].value : i \in {j \in 1..Len(cache) : cache[j].key = "events:week"}}

\* C24 (as claimed): whenever getWeekEvents returns a mapping in which a weekday
\* holds an event, the answer of the get_week_events tool lists the events of
\* the week and is not the text that says no events are scheduled.
C24_WeekReported ==
    (/\ lastOp.op = "get_week_events"
     /\ server.apiClient) =>
        \A week \in WeekReturned :
            (\E day \in Weekdays : Len(week[day]) > 0) =>
                /\ ~lastOp.threw
                /\ lastOp.result.text # NoWeekText
                /\ \A day \in Weekdays :
                       \A i \in 1..Len(week[day]) :
                           \E k \in 1..Len(lastOp.result.listed) :
                               lastOp.result.listed[k] = week[day][i]

(***************************************************************************)
(* SpecSteps: getAllEventsInRange request by request.  The call is         *)
(* suspended at the await of each events query of its loop; the timer of   *)
(* the cache runs and the clock moves while it is.                         *)
(***************************************************************************)
Planning == Event("e5", "Planning", "", "", 2, "cal-3", "acc-1")
Offsite == Event("e6", "Offsite", "", "Harbour", 3, "cal-2", "acc-2")

\* two accounts, the first owning two calendars that the listing names apart
SharedAccount(faults) ==
    [accounts |-> <<Account("acc-1"), Account("acc-2")>>,
     calendars |-> <<Calendar("cal-1", "acc-1"), Calendar("cal-2", "acc-2"),
                     Calendar("cal-3", "acc-1")>>,
     events |-> <<Standup, BusySlot, Planning, Offsite>>,
     faults |-> faults]

\* getAllEventsInRange up to its first check: the accounts
Connected(c, calls, net) ==
    LET connected(accounts) ==
            IF accounts.threw THEN accounts
            ELSE IF Len(accounts.result) = 0
            THEN Throw(accounts.cache, accounts.calls, Error(NoAccountsMessage))
            ELSE accounts
    IN  connected(ListAccounts(c, calls, net))

\* getAllEventsInRange from there to its loop: the calendars
Listed(c, calls, net) ==
    LET listed(calendars) ==
            IF calendars.threw THEN calendars
            ELSE IF Len(calendars.result) = 0
            THEN Throw(calendars.cache, calendars.calls, Error(NoCalendarsMessage))
            ELSE calendars
    IN  listed(ListCalendars(c, calls, net))

\* a loop that goes on to the next account without waiting for the answer
MayIssueEager(t) == TRUE

\* `await this.listEvents(...)` inside the for loop: the loop goes on to the next
\* account when the query of this one has been answered
MayIssue(t) == t.inflight = <<>>

\* the parameters of the events query of an account
QueryOf(t, accountId) ==
    [accountId |-> Str(accountId),
     calendarIds |-> Str(CalendarIdsOf(t.calendars, accountId)),
     start |-> t.start, end |-> t.end]

\* the call begins: it lists the accounts.  The task keeps, next to the call, its
\* twin: the same call with the same answers in a cache that the timer leaves
\* alone (unswept)
BeginFanOut ==
    /\ task.pc = "idle"
    /\ left # 0
    /\ left' = (IF left = Unlimited THEN Unlimited ELSE left - 1)
    /\ \E net \in Nets(Miss("accounts"), FALSE, FALSE, {}) :
           LET begun(r) ==
                   /\ cache' = r.cache
                   /\ IF r.threw
                      THEN /\ lastOp' = Observed("getAllEventsInRange",
                                                 <<RangeStart, RangeEnd>>, net,
                                                 WithErrors(r, <<>>))
                           /\ task' = task
                      ELSE /\ lastOp' = lastOp
                           /\ task' = [pc |-> "calendars", calendars |-> <<>>,
                                       todo |-> <<>>, inflight |-> <<>>,
                                       allEvents |-> <<>>, errors |-> <<>>,
                                       start |-> RangeStart, end |-> RangeEnd,
                                       calls |-> r.calls, net |-> net, out |-> r,
                                       unswept |-> r.cache, twin |-> r,
                                       overlapped |-> FALSE, depth |-> 0]
           IN  begun(Connected(cache, <<>>, net))
    /\ UNCHANGED <<now, maxSize, up, server>>

\* the call goes on: it lists the calendars
FetchCalendars ==
    /\ task.pc = "calendars"
    /\ \E outcome \in (IF Miss("calendars") THEN Outcomes ELSE {"ok"}) :
           LET stepped(net, r, g) ==
                   /\ cache' = r.cache
                   /\ task' = [task EXCEPT
                                  !.pc = IF r.threw THEN "thrown" ELSE "loop",
                                  !.calendars = IF r.threw THEN <<>> ELSE r.result,
                                  !.todo = IF r.threw THEN <<>> ELSE Owners(r.result),
                                  !.calls = r.calls, !.net = net, !.out = r,
                                  !.unswept = g.cache, !.twin = g]
               answered(net) ==
                   stepped(net, Listed(cache, task.calls, net),
                           Listed(task.unswept, task.twin.calls, net))
           IN  answered([task.net EXCEPT !.calendars = outcome])
    /\ UNCHANGED <<now, maxSize, up, lastOp, left, server>>

\* listEvents hands the query to getAllEventsInRange: the calendars are "all" and
\* both dates are given
Delegates(params) ==
    /\ IsStr(params.calendarIds, "all") \/ IsStr(params.calendarIds, "ALL")
    /\ Truthy(params.start) /\ Truthy(params.end)

\* the loop reaches the next account: its events query goes out
IssueQuery ==
    /\ task.pc = "loop"
    /\ task.todo # <<>>
    /\ MayIssue(task)
    /\ ~Delegates(QueryOf(task, Head(task.todo)))
    /\ task' = [task EXCEPT
                   !.todo = Tail(task.todo),
                   !.inflight = Append(task.inflight, Head(task.todo)),
                   !.calls = ListEvents(QueryOf(task, Head(task.todo)), cache,
                                        task.calls, task.net).calls,
                   !.twin = [@ EXCEPT !.calls =
                                ListEvents(QueryOf(task, Head(task.todo)), task.unswept,
                                           task.twin.calls, task.net).calls]]
    /\ UNCHANGED <<now, cache, maxSize, up, lastOp, left, server>>

\* an events query is answered: its events are collected, or its error is
AnswerQuery ==
    /\ task.pc = "loop"
    /\ \E i \in 1..Len(task.inflight) : \E outcome \in Outcomes :
           LET accountId == task.inflight[i]
               net == [task.net EXCEPT !.events[accountId] = outcome]
               collected(r) ==
                   task' = [task EXCEPT
                       !.inflight = SubSeq(task.inflight, 1, i - 1)
                                        \o SubSeq(task.inflight, i + 1, Len(task.inflight)),
                       !.net = net,
                       !.allEvents = IF r.threw THEN @ ELSE @ \o r.result,
                       !.errors = IF r.threw
                                  THEN Append(@, AccountError(accountId, r.error))
                                  ELSE @]
           IN  collected(ListEvents(QueryOf(task, accountId), cache, <<>>, net))
    /\ UNCHANGED <<now, cache, maxSize, up, lastOp, left, server>>

\* the call has nothing left to wait for
Over(t) ==
    \/ t.pc = "thrown"
    \/ t.pc = "loop" /\ t.todo = <<>> /\ t.inflight = <<>>

\* what the call comes to: it returns what it collected, or throws
Collected(t, c) ==
    IF t.pc = "thrown"
    THEN WithErrors(Throw(c, t.calls, t.out.error), <<>>)
    ELSE IF Len(t.allEvents) = 0 /\ Len(t.errors) > 0
    THEN WithErrors(Throw(c, t.calls,
                          Error("Failed to fetch events from all accounts:\n"
                                \o Join(t.errors, "\n"))),
                    t.errors)
    ELSE WithErrors(Return(c, t.calls, t.allEvents), t.errors)

\* the call is over
EndFanOut ==
    /\ Over(task)
    /\ lastOp' = Observed("getAllEventsInRange", <<RangeStart, RangeEnd>>, task.net,
                          Collected(task, cache))
    /\ task' = Idle
    /\ UNCHANGED <<now, cache, maxSize, up, left, server>>

\* listCalendars, called while no call is suspended
ListCalendarsAlone == task.pc = "idle" /\ ListCalendarsOp

InitSteps ==
    \E upstream \in {SharedAccount({"401"}), ThreeAccounts({"401"})} :
        InitClient(upstream, MaxCalls)

NextSteps ==
    \/ ListCalendarsAlone
    \/ BeginFanOut
    \/ FetchCalendars
    \/ IssueQuery
    \/ AnswerQuery
    \/ EndFanOut
    \/ CleanupTimer
    \/ Elapse

SpecSteps == InitSteps /\ [][NextSteps]_vars

(***************************************************************************)
(* SpecOverlap: getTodayEvents request by request, with createEvent called *)
(* while it is suspended.  The handler of the server awaits the tool it    *)
(* calls and holds no lock: a second request is handled while the first is *)
(* suspended.  The upstream service keeps the events it is given.          *)
(***************************************************************************)
\* the event that the upstream service holds after the create request
Stored(eventData) ==
    LET calendar == CHOOSE cal \in SeqToSet(up.calendars) :
                        cal.id = eventData.calendar_id.v
    IN  Event("e7", eventData.title.v, "", "", 0, calendar.id, calendar.accountId)

\* getTodayEvents begins: it looks in the cache, and on a miss lists the accounts
BeginToday ==
    /\ task.pc = "idle"
    /\ left # 0
    /\ left' = (IF left = Unlimited THEN Unlimited ELSE left - 1)
    /\ LET today == Midnight(now)
           begun(net, r) ==
               /\ cache' = r.cache
               /\ IF r.threw
                  THEN /\ lastOp' = Observed("getTodayEvents", <<>>, net, Swallow(r, <<>>))
                       /\ task' = task
                  ELSE /\ lastOp' = lastOp
                       /\ task' = [pc |-> "calendars", calendars |-> <<>>,
                                   todo |-> <<>>, inflight |-> <<>>,
                                   allEvents |-> <<>>, errors |-> <<>>,
                                   start |-> Str(IsoString(today, 0)),
                                   end |-> Str(IsoString(today, 1)),
                                   calls |-> r.calls, net |-> net, out |-> r,
                                   unswept |-> r.cache, twin |-> r,
                                   overlapped |-> FALSE, depth |-> 0]
           looked(cached) ==
               IF cached.hit
               THEN \E net \in Nets(FALSE, FALSE, FALSE, {}) :
                        /\ cache' = cached.cache
                        /\ lastOp' = Observed("getTodayEvents", <<>>, net,
                                              Return(cached.cache, <<>>, cached.value))
                        /\ task' = task
               ELSE \E net \in Nets(Miss("accounts"), FALSE, FALSE, {}) :
                        begun(net, Connected(cached.cache, <<>>, net))
       IN  looked(CacheGet(cache, "events:today", now))
    /\ UNCHANGED <<now, maxSize, up, server>>

\* getTodayEvents is over: it stores what the fan-out returned, or swallows what
\* it threw
EndToday ==
    /\ Over(task)
    /\ LET ended(events) ==
               IF events.threw THEN Swallow(events, <<>>)
               ELSE Return(CacheSet(events.cache, maxSize, "events:today",
                                    events.result, TodayTTL, now),
                           events.calls, events.result)
           finished(out) ==
               /\ cache' = out.cache
               /\ lastOp' = Observed("getTodayEvents", <<>>, task.net, out)
       IN  finished(ended(Collected(task, cache)))
    /\ task' = Idle
    /\ UNCHANGED <<now, maxSize, up, left, server>>

\* the read awaits the answer of a request: the handler of another request runs
\* now, and at no other point
Suspended(t) ==
    \/ t.pc = "calendars"
    \/ t.pc = "loop" /\ t.inflight # <<>>

\* createEvent, from its first line to its last, whether or not a read is
\* suspended; the upstream service holds the event from then on
CreateEventStep ==
    /\ task.pc = "idle" \/ Suspended(task)
    /\ left # 0
    /\ left' = (IF left = Unlimited THEN Unlimited ELSE left - 1)
    /\ \E eventData \in CreateEventInputs :
           \E net \in { n \in Nets(FALSE, Miss("calendars"), TRUE, {}) : InOrder(n) } :
               LET created(r) ==
                       /\ cache' = r.cache
                       /\ lastOp' = Observed("createEvent", eventData, net, r)
                       /\ up' = IF r.threw THEN up
                                ELSE [up EXCEPT !.events = Append(@, Stored(eventData))]
                       /\ task' = IF task.pc = "idle" \/ r.threw THEN task
                                  ELSE [task EXCEPT !.overlapped = TRUE]
               IN  created(CreateEvent(eventData, cache, <<>>, net))
    /\ UNCHANGED <<now, maxSize, server>>

InitOverlap == InitClient(TwoAccounts({"401"}), MaxCalls)

NextOverlap ==
    \/ BeginToday
    \/ FetchCalendars
    \/ IssueQuery
    \/ AnswerQuery
    \/ EndToday
    \/ CreateEventStep
    \/ Elapse

SpecOverlap == InitOverlap /\ [][NextOverlap]_vars

(***************************************************************************)
(* SpecNest: getAllEventsInRange over accounts whose calendars join to the *)
(* word that listEvents takes for all calendars.  The clock stands still:  *)
(* the accounts and the calendars, cached for an hour by the outermost     *)
(* call, are read from the cache by a call made from within it.            *)
(***************************************************************************)
\* two accounts, the second owning one calendar whose id is that word
AllCalendar(id, faults) ==
    [accounts |-> <<Account("acc-1"), Account("acc-2")>>,
     calendars |-> <<Calendar("cal-1", "acc-1"), Calendar(id, "acc-2")>>,
     events |-> <<Standup, BusySlot, Event("e8", "Retro", "", "", 1, id, "acc-2")>>,
     faults |-> faults]

\* the loop reaches an account whose query listEvents hands back to
\* getAllEventsInRange: a call within the call begins, reads the accounts and the
\* calendars from the cache and starts its own loop over the same accounts.  A
\* call that has come here comes here again before it returns, so that the calls
\* around it, which wait for it, are counted (up to MaxDepth) and not kept
Descend ==
    /\ task.pc = "loop"
    /\ task.todo # <<>>
    /\ MayIssue(task)
    /\ Delegates(QueryOf(task, Head(task.todo)))
    /\ ~Miss("accounts") /\ ~Miss("calendars")
    /\ LET nested(accounts, calendars) ==
               /\ cache' = calendars.cache
               /\ task' = [task EXCEPT
                              !.calendars = calendars.result,
                              !.todo = Owners(calendars.result),
                              !.inflight = <<>>,
                              !.allEvents = <<>>, !.errors = <<>>,
                              !.calls = calendars.calls, !.out = calendars,
                              !.unswept = calendars.cache, !.twin = calendars,
                              !.depth = IF @ < MaxDepth THEN @ + 1 ELSE MaxDepth]
           connected(accounts) ==
               nested(accounts, Listed(accounts.cache, accounts.calls, task.net))
       IN  connected(Connected(cache, <<>>, task.net))
    /\ UNCHANGED <<now, maxSize, up, lastOp, left, server>>

InitNest ==
    \E upstream \in {AllCalendar("all", {"401"}), AllCalendar("ALL", {"401"}),
                      AllCalendar("All", {"401"})} :
        InitClient(upstream, MaxCalls)

NextNest ==
    \/ BeginFanOut
    \/ FetchCalendars
    \/ IssueQuery
    \/ AnswerQuery
    \/ Descend
    \/ EndFanOut

\* the event loop runs whatever is ready, and every request is answered
SpecNest == InitNest /\ [][NextNest]_vars /\ WF_vars(NextNest)

(***************************************************************************)
(* Claims about the fan-out, request by request (SpecSteps).               *)
(***************************************************************************)
\* the events queries among the requests
EventsQueries(calls) == SelectSeq(calls, LAMBDA req : req.endpoint = "/events/list")

\* the events query of one owning account for the range asked for: that account,
\* its calendar ids separated by commas, the start and the end given
ScopedQuery(accountId) ==
    LET own == SelectSeq(up.calendars, LAMBDA cal : cal.accountId = accountId)
    IN  [method |-> "GET", endpoint |-> "/events/list", accountId |-> accountId,
         calendarIds |-> Join([i \in 1..Len(own) |-> own[i].id], ","),
         start |-> Param(RangeStart), end |-> Param(RangeEnd)]

\* C26: a getAllEventsInRange that passes its configuration checks issues exactly
\* one events query per owning account, scoped to that account's calendar ids and
\* the range given; the queries go out one after the other, each when the one
\* before it has been answered.
C26_FanOutProtocol ==
    LET owners == Owners(up.calendars)
        expected == [i \in 1..Len(owners) |-> ScopedQuery(owners[i])]
    IN  /\ task.pc = "loop" =>
            /\ Len(task.inflight) <= 1
            /\ EventsQueries(task.calls)
                   = SubSeq(expected, 1, Len(owners) - Len(task.todo))
        /\ (task.pc = "idle" /\ ReachedFanOut) =>
               EventsQueries(lastOp.calls) = expected

\* a fan-out over an account with two calendars and an account with one came back
\* with the events of both
C26_WitnessTwoQueries ==
    /\ task.pc = "idle"
    /\ ReachedFanOut
    /\ up = SharedAccount({"401"})
    /\ Len(EventsQueries(lastOp.calls)) = 2
    /\ lastOp.calls[Len(lastOp.calls) - 1].calendarIds = "cal-1,cal-3"
    /\ ~lastOp.threw
    /\ Len(lastOp.result) = 3

(***************************************************************************)
(* SpecAll: MaxCalls calls of listEvents and getEvents, most of them for   *)
(* all calendars, with both dates, with one and with none.                 *)
(***************************************************************************)
ListEventsShapes ==
    ListEventsInputs \cup
    { [accountId |-> Undefined, calendarIds |-> Str("all"),
       start |-> RangeStart, end |-> Undefined],
      [accountId |-> Str("acc-1"), calendarIds |-> Str("all"),
       start |-> Undefined, end |-> RangeEnd],
      [accountId |-> Str("acc-1"), calendarIds |-> Str("all"),
       start |-> RangeStart, end |-> RangeEnd] }

ListEventsShapesOp ==
    \E params \in ListEventsShapes \ ListEventsInputs :
        \E net \in IF Truthy(params.start) /\ Truthy(params.end)
                   THEN FanOutNets
                   ELSE { n \in Nets(FALSE, Miss("calendars"), FALSE,
                                     {Param(params.accountId)}) : InOrder(n) } :
            Run("listEvents", params, net, ListEvents(params, cache, <<>>, net))

InitAll ==
    \E upstream \in {TwoAccounts({"401"}), SharedAccount({"401"}), NoCalendars({"401"})} :
        InitClient(upstream, MaxCalls)

NextAll == ListEventsOp \/ ListEventsShapesOp \/ GetEventsShapesOp \/ ListCalendarsOp

SpecAll == InitAll /\ [][NextAll]_vars

(***************************************************************************)
(* SpecKeys: the cache keys of parameter objects whose properties were     *)
(* inserted in any order.  An object is the sequence of its properties in  *)
(* insertion order; MaxCalls answers are cached under the keys of objects.  *)
(***************************************************************************)
\* the characters of the property names, in the order of their code units
CodeUnits == "_abcdefghijklmnopqrstuvwxyz"

CodeUnit(ch) == CHOOSE i \in 1..Len(CodeUnits) : SubSeq(CodeUnits, i, i) = ch

RECURSIVE Before(_, _)
\* a < b as Array.prototype.sort compares two strings without a compare function
Before(a, b) ==
    IF Len(b) = 0 THEN FALSE
    ELSE IF Len(a) = 0 THEN TRUE
    ELSE IF SubSeq(a, 1, 1) = SubSeq(b, 1, 1)
    THEN Before(SubSeq(a, 2, Len(a)), SubSeq(b, 2, Len(b)))
    ELSE CodeUnit(SubSeq(a, 1, 1)) < CodeUnit(SubSeq(b, 1, 1))

\* keys left in the order of insertion
SortNot(keys) == keys

RECURSIVE Sort(_)
\* Object.keys(params).sort()
Sort(keys) ==
    IF Len(keys) <= 1 THEN keys
    ELSE LET rest == Sort(Tail(keys))
             ahead == SelectSeq(rest, LAMBDA k : Before(k, Head(keys)))
         IN  ahead \o <<Head(keys)>> \o SubSeq(rest, Len(ahead) + 1, Len(rest))

\* Object.keys(obj)
ObjectKeys(obj) == [i \in 1..Len(obj) |-> obj[i].name]

\* obj[key]
ValueOf(obj, key) ==
    IF \E i \in 1..Len(obj) : obj[i].name = key
    THEN obj[CHOOSE i \in 1..Len(obj) : obj[i].name = key].value
    ELSE Undefined

\* SimpleCache.generateEventKey(type, params) of an object with any properties
GenerateEventKeyOf(type, params) ==
    LET keys == Sort(ObjectKeys(params))
        sortedParams == Join([i \in 1..Len(keys) |->
                                 keys[i] \o ":" \o ToStr(ValueOf(params, keys[i]))], "|")
    IN  IF sortedParams # "" THEN type \o ":" \o sortedParams ELSE type

\* SimpleCache.hashSearchOptions(options) of an object with any properties:
\* JSON.stringify writes the properties the array names, in its order, and leaves
\* out those whose value is undefined
HashSearchOptionsOf(options) ==
    LET keys == Sort(ObjectKeys(options))
        given == SelectSeq(keys, LAMBDA k : ValueOf(options, k).t # "undefined")
    IN  "{" \o Join([i \in 1..Len(given) |->
                        "\"" \o given[i] \o "\":" \o Json(ValueOf(options, given[i]))], ",")
            \o "}"

\* the objects that hold these properties, in every order of insertion
Orders(props) ==
    { obj \in [1..Cardinality(props) -> props] :
        \A i, j \in 1..Cardinality(props) : obj[i] = obj[j] => i = j }

Property(name, value) == [name |-> name, value |-> value]

\* the parameter objects of a range query
RangeParams ==
    UNION { Orders({Property("account_id", account), Property("start_date", RangeStart),
                    Property("end_date", RangeEnd), Property("calendar_ids", ids)}) :
              account \in {Str("acc-1"), Undefined}, ids \in {Str("all"), Str("cal-1,cal-2")} }

\* the options objects of a search
SearchOptions ==
    UNION { Orders(props) :
              props \in { {Property("start_date", RangeStart), Property("end_date", RangeEnd),
                           Property("max_results", Num(5))},
                          {Property("start_date", RangeStart), Property("end_date", RangeEnd),
                           Property("max_results", Undefined)},
                          {Property("max_results", Num(5)), Property("end_date", RangeEnd)},
                          {Property("max_results", Num(7))},
                          {} } }

\* an answer is cached under the key of the object; the record keeps the object
\* and its key
Keyed(op, obj, key, ttl) ==
    /\ left # 0
    /\ left' = left - 1
    /\ cache' = CacheSet(cache, maxSize, key, {obj[i] : i \in 1..Len(obj)}, ttl, now)
    /\ lastOp' = [op |-> op, args |-> obj, result |-> key]
    /\ UNCHANGED <<now, maxSize, up, server, task>>

GenerateEventKeyOp ==
    \E params \in RangeParams :
        Keyed("generateEventKey", params, GenerateEventKeyOf("events:range", params),
              RangeTTL)

HashSearchOptionsOp ==
    \E options \in SearchOptions :
        Keyed("hashSearchOptions", options,
              "search:standup:" \o HashSearchOptionsOf(options), SearchTTL)

InitKeys == InitClient(NoUpstream, MaxCalls)

NextKeys == GenerateEventKeyOp \/ HashSearchOptionsOp

SpecKeys == InitKeys /\ [][NextKeys]_vars

(***************************************************************************)
(* SpecCross: MaxCalls calls of getEvents and searchEvents for requests    *)
(* that differ, some of them in strings that hold the separators of the    *)
(* keys, against an upstream service that answers every request.           *)
(***************************************************************************)
NextDay == "2024-01-17T00:00:00Z"

CrossRanges ==
    { [account_id |-> Str("acc-1"), calendar_ids |-> Str("cal-1"),
       start_date |-> RangeStart, end_date |-> RangeEnd],
      [account_id |-> Str("acc-1"), calendar_ids |-> Str("cal-1"),
       start_date |-> RangeStart, end_date |-> Str(RangeEnd.v \o "|end_date:" \o NextDay)],
      [account_id |-> Str("acc-1"), calendar_ids |-> Str("cal-1|end_date:" \o RangeEnd.v),
       start_date |-> RangeStart, end_date |-> Str(NextDay)],
      [account_id |-> Str("acc-2"), calendar_ids |-> Str("cal-1"),
       start_date |-> RangeStart, end_date |-> RangeEnd],
      [account_id |-> Str("acc-1"), calendar_ids |-> Str("all"),
       start_date |-> RangeStart, end_date |-> RangeEnd] }

CrossSearches ==
    { [query |-> q, options |-> [start_date |-> RangeStart, end_date |-> e,
                                 max_results |-> m]] :
        q \in {"stand", "stand:{}"}, e \in {RangeEnd, Undefined}, m \in {Undefined, Num(1)} }

GetEventsCrossOp ==
    \E options \in CrossRanges :
        \E net \in Nets(FALSE, FALSE, FALSE, {}) :
            Run("getEvents", options, net, GetEvents(options, cache, <<>>, net))

SearchEventsCrossOp ==
    \E in \in CrossSearches :
        \E net \in Nets(FALSE, FALSE, FALSE, {}) :
            Run("searchEvents", in, net, SearchEvents(in.query, in.options, cache, <<>>, net))

InitCross == InitClient(TwoAccounts({}), MaxCalls)

NextCross == GetEventsCrossOp \/ SearchEventsCrossOp \/ Elapse

SpecCross == InitCross /\ [][NextCross]_vars

(***************************************************************************)
(* SpecDays: MaxCalls calls of getWeekEvents on the days 0..MaxDay, at     *)
(* midnight, at noon and in the last millisecond of the day.               *)
(***************************************************************************)
DayReadings ==
    {day * MsPerDay + ms : day \in 0..MaxDay, ms \in {0, MsPerDay \div 2, MsPerDay - 1}}

\* time passes until the clock reads a later instant of these days
Pass ==
    /\ \E t \in DayReadings : t > now /\ now' = t
    /\ UNCHANGED <<cache, maxSize, up, lastOp, left, server, task>>

InitDays == InitClient(TwoAccounts({"401"}), MaxCalls)

NextDays == GetWeekEventsOp \/ Pass

SpecDays == InitDays /\ [][NextDays]_vars

(***************************************************************************)
(* SpecPartial: MaxCalls calls of the reads that fan out, against two      *)
(* accounts that both hold events and may each refuse, and the clock.      *)
(***************************************************************************)
InitPartial == InitClient(SharedAccount({"401"}), MaxCalls)

\* getEvents of all calendars over the range
GetEventsAllOp ==
    \E options \in { o \in GetEventsShapes : IsStr(o.calendar_ids, "all") } :
        \E net \in CachedReadNets(RangeKey(options), FanOutNets) :
            Run("getEvents", options, net, GetEvents(options, cache, <<>>, net))

NextPartial ==
    \/ GetTodayEventsOp
    \/ GetWeekEventsOp
    \/ GetEventsAllOp
    \/ SearchEventsOp
    \/ Elapse

SpecPartial == InitPartial /\ [][NextPartial]_vars

(***************************************************************************)
(* Claims about the requests of the fan-out and of the reads of all        *)
(* calendars (SpecCalls).                                                  *)
(***************************************************************************)
\* C27: a getAllEventsInRange that finds no account fails with the error that says
\* so, without fetching the calendars and without any events query; one that
\* finds accounts and no calendar fails with the error that says so, without any
\* events query.
C27_ChecksPrecedeFanOut ==
    (lastOp.op = "getAllEventsInRange" /\ lastOp.net.accounts = "ok") =>
        /\ Len(up.accounts) = 0 =>
               /\ lastOp.threw
               /\ lastOp.error.message = NoAccountsMessage
               /\ ~Issued("GET", "/calendars/list")
               /\ ~Issued("GET", "/events/list")
        /\ (Len(up.accounts) > 0 /\ lastOp.net.calendars = "ok"
              /\ Len(up.calendars) = 0) =>
               /\ lastOp.threw
               /\ lastOp.error.message = NoCalendarsMessage
               /\ ~Issued("GET", "/events/list")

\* a getAllEventsInRange fetched the accounts and the calendars, found no calendar
\* and failed
C27_WitnessNoCalendarsNoQuery ==
    /\ lastOp.op = "getAllEventsInRange"
    /\ up = NoCalendars(Faults)
    /\ Issued("GET", "/integrations/accounts/list")
    /\ Issued("GET", "/calendars/list")
    /\ lastOp.threw
    /\ lastOp.error.message = NoCalendarsMessage

\* a getAllEventsInRange fetched the accounts, found none and failed
C27_WitnessNoAccounts ==
    /\ lastOp.op = "getAllEventsInRange"
    /\ up = NoAccounts(Faults)
    /\ lastOp.calls = <<[method |-> "GET", endpoint |-> "/integrations/accounts/list"]>>
    /\ lastOp.threw

\* the last call was a listEvents for all calendars
ListedAll == lastOp.op = "listEvents" /\ IsStr(lastOp.args.calendarIds, "all")

\* the ids of all the calendars, separated by commas
AllCalendarIds == Join([i \in 1..Len(up.calendars) |-> up.calendars[i].id], ",")

\* C28: listEvents for the calendars "all", given both start and end, delegates to
\* the fan-out: it issues the queries of the fan-out, one per owning account, and
\* no query for all calendars at once.  Given no start or no end, it issues exactly
\* one events query, for the ids of all the listed calendars, separated by commas;
\* where no calendar is listed, it fails and issues no events query.
C28_ListEventsAll ==
    LET owners == Owners(up.calendars)
    IN  ListedAll =>
            IF Truthy(lastOp.args.start) /\ Truthy(lastOp.args.end)
            THEN /\ Fans(lastOp.net) =>
                        EventsQueries(lastOp.calls)
                            = [i \in 1..Len(owners) |-> ScopedQuery(owners[i])]
                 /\ ~Fans(lastOp.net) => EventsQueries(lastOp.calls) = <<>>
                 /\ \A i \in 1..Len(lastOp.calls) :
                        lastOp.calls[i].endpoint = "/events/list" =>
                            /\ lastOp.calls[i].calendarIds # "all"
                            /\ Len(owners) > 1 =>
                                   lastOp.calls[i].calendarIds # AllCalendarIds
            ELSE lastOp.net.calendars = "ok" =>
                     IF Len(up.calendars) = 0
                     THEN /\ lastOp.threw
                          /\ lastOp.error.message = NoCalendarsMessage
                          /\ EventsQueries(lastOp.calls) = <<>>
                     ELSE EventsQueries(lastOp.calls) =
                              <<[method |-> "GET", endpoint |-> "/events/list",
                                 accountId |-> Param(lastOp.args.accountId),
                                 calendarIds |-> AllCalendarIds,
                                 start |-> Param(lastOp.args.start),
                                 end |-> Param(lastOp.args.end)]>>

\* a listEvents for all calendars without an end read the calendars of two
\* accounts with one query
C28_WitnessOneQueryForAll ==
    /\ ListedAll
    /\ Truthy(lastOp.args.start)
    /\ ~Truthy(lastOp.args.end)
    /\ Cardinality(OwningAccounts) = 2
    /\ Len(EventsQueries(lastOp.calls)) = 1
    /\ lastOp.calls[Len(lastOp.calls)].calendarIds = "cal-1,cal-2,cal-3"
    /\ ~lastOp.threw

\* the events of the calendars of an account that are no placeholders
RealEventsOf(accountId) ==
    SelectSeq(up.events, LAMBDA e :
        /\ e.accountId = accountId
        /\ \E i \in 1..Len(up.calendars) :
               up.calendars[i].id = e.calendarId /\ up.calendars[i].accountId = accountId
        /\ e.title # "Busy (via Morgen)"
        /\ e.title # "Untitled Event")

RECURSIVE RealEventsOfAll(_)
RealEventsOfAll(accountIds) ==
    IF accountIds = <<>> THEN <<>>
    ELSE RealEventsOf(Head(accountIds)) \o RealEventsOfAll(Tail(accountIds))

\* the last call was a getEvents for an account and the calendars "all" that
\* queried the accounts, each of them answering
FetchedAll ==
    /\ lastOp.op = "getEvents"
    /\ IsStr(lastOp.args.calendar_ids, "all")
    /\ Truthy(lastOp.args.account_id)
    /\ EventsQueries(lastOp.calls) # <<>>
    /\ \A a \in OwningAccounts : lastOp.net.events[a] = "ok"

\* C29: getEvents given an account id and the calendars "all" answers the fan-out
\* over every account that owns calendars, the events of each that are no
\* placeholders, not the events of the account given alone; where two accounts
\* hold one real event and placeholders, it answers exactly the real event.
C29_AllMeansEveryAccount ==
    FetchedAll =>
        /\ ~lastOp.threw
        /\ lastOp.result = RealEventsOfAll(Owners(up.calendars))
        /\ up.events = <<Standup, BusySlot, UntitledSlot>> => lastOp.result = <<Standup>>

\* a getEvents for acc-1 and the calendars "all" answered an event of acc-2 too
C29_WitnessOtherAccount ==
    /\ FetchedAll
    /\ IsStr(lastOp.args.account_id, "acc-1")
    /\ \E i \in 1..Len(lastOp.result) : lastOp.result[i].accountId = "acc-2"
    /\ \E i \in 1..Len(lastOp.result) : lastOp.result[i].accountId = "acc-1"

\* a getEvents for two accounts holding one real event answered that event
C29_WitnessOneRealEvent ==
    /\ FetchedAll
    /\ up.events = <<Standup, BusySlot, UntitledSlot>>
    /\ lastOp.result = <<Standup>>

(***************************************************************************)
(* Claims about the cache keys (SpecKeys).                                 *)
(***************************************************************************)
\* the two objects hold the same properties
SamePairs(a, b) == {a[i] : i \in 1..Len(a)} = {b[i] : i \in 1..Len(b)}

\* C30: generateEventKey and hashSearchOptions give the same string for any two
\* parameter objects that hold the same name/value pairs, inserted in different
\* orders; requests that are the same but for the order of their parameters are
\* cached in one entry.
C30_KeysIgnoreOrder ==
    /\ lastOp.op = "generateEventKey" =>
           \A other \in RangeParams :
               SamePairs(other, lastOp.args) =>
                   GenerateEventKeyOf("events:range", other) = lastOp.result
    /\ lastOp.op = "hashSearchOptions" =>
           \A other \in SearchOptions :
               SamePairs(other, lastOp.args) =>
                   "search:standup:" \o HashSearchOptionsOf(other) = lastOp.result
    /\ \A i, j \in 1..Len(cache) : cache[i].value = cache[j].value => i = j

\* the key of a range query whose parameters were inserted in descending order of
\* their names, a search whose options were being cached too
C30_WitnessReversedOrder ==
    /\ lastOp.op = "generateEventKey"
    /\ ObjectKeys(lastOp.args) = <<"start_date", "end_date", "calendar_ids", "account_id">>
    /\ lastOp.result
           = "events:range:account_id:acc-1|calendar_ids:all|end_date:"
                 \o ToStr(RangeEnd) \o "|start_date:" \o ToStr(RangeStart)
    /\ \E i \in 1..Len(cache) :
           cache[i].key = "search:standup:{\"end_date\":\"" \o ToStr(RangeEnd)
                              \o "\",\"max_results\":5}"

\* the key of an object with the four parameters of getEvents is the key getEvents
\* computes
KeysAgree ==
    lastOp.op = "generateEventKey" =>
        lastOp.result = GenerateEventKey("events:range",
                            [account_id |-> ValueOf(lastOp.args, "account_id"),
                             start_date |-> ValueOf(lastOp.args, "start_date"),
                             end_date |-> ValueOf(lastOp.args, "end_date"),
                             calendar_ids |-> ValueOf(lastOp.args, "calendar_ids")])

(***************************************************************************)
(* Claims about the requests that share a cache entry (SpecCross).         *)
(***************************************************************************)
\* every request answered
AllAnswered == CHOOSE net \in Nets(FALSE, FALSE, FALSE, {}) : TRUE

\* what the last call answers when nothing is cached
Uncached ==
    IF lastOp.op = "getEvents" THEN GetEvents(lastOp.args, <<>>, <<>>, AllAnswered)
    ELSE SearchEvents(lastOp.args.query, lastOp.args.options, <<>>, <<>>, AllAnswered)

\* C31 (as claimed): getEvents never answers a cached result computed for other
\* (account, calendar ids, start, end) and searchEvents never one computed for
\* another (query, options): a call answered from the cache gets what its own
\* request fetches, the keys of two requests that differ being different.
C31_NoCrossRequestHits ==
    /\ (lastOp.op \in {"getEvents", "searchEvents"} /\ lastOp.calls = <<>>
          /\ ~lastOp.threw) =>
           lastOp.result = Uncached.result
    /\ lastOp.op = "getEvents" =>
           \A other \in CrossRanges :
               other # lastOp.args => RangeKey(other) # RangeKey(lastOp.args)
    /\ lastOp.op = "searchEvents" =>
           \A other \in CrossSearches :
               other # lastOp.args => SearchKey(other) # SearchKey(lastOp.args)

\* the part of C31 that is about searchEvents
SearchKeysDiffer ==
    lastOp.op = "searchEvents" =>
        /\ (lastOp.calls = <<>> /\ ~lastOp.threw) => lastOp.result = Uncached.result
        /\ \A other \in CrossSearches :
               other # lastOp.args => SearchKey(other) # SearchKey(lastOp.args)

\* the part of C31 that is about the answers of getEvents
RangeAnswersOwn ==
    (lastOp.op = "getEvents" /\ lastOp.calls = <<>> /\ ~lastOp.threw) =>
        lastOp.result = Uncached.result

(***************************************************************************)
(* Claims about the week of getWeekEvents (SpecDays).                      *)
(***************************************************************************)
\* the day on which the last call was made, counted from the epoch
Today == lastOp.at \div MsPerDay

\* the Mondays on or before today that are less than a week ago
MondaysBefore == {day \in (Today - 6)..Today : WeekdayOf(day) = "Monday"}

\* C32: on every weekday the offset to Monday that getWeekEvents computes lies in
\* -6..0 and lands on a Monday (-6 on a Sunday): the range it queries starts at
\* 00:00 of the Monday on or before today, contains today and ends exactly 7 days
\* later.
C32_WeekRange ==
    lastOp.op = "getWeekEvents" =>
        /\ DaysToMonday(GetDay(Today)) \in (0 - 6)..0
        /\ WeekdayOf(Today + DaysToMonday(GetDay(Today))) = "Monday"
        /\ WeekdayOf(Today) = "Sunday" => DaysToMonday(GetDay(Today)) = 0 - 6
        /\ \A i \in 1..Len(lastOp.calls) :
               lastOp.calls[i].endpoint = "/events/list" =>
                   \E monday \in MondaysBefore :
                       /\ lastOp.calls[i].start = "D" \o ToString(monday) \o "T0"
                       /\ lastOp.calls[i].end = "D" \o ToString(monday + 7) \o "T0"

\* late on a Sunday getWeekEvents queried the week that began six days before
C32_WitnessSunday ==
    /\ lastOp.op = "getWeekEvents"
    /\ WeekdayOf(Today) = "Sunday"
    /\ lastOp.at % MsPerDay = MsPerDay - 1
    /\ Len(EventsQueries(lastOp.calls)) = 2
    /\ lastOp.calls[Len(lastOp.calls)].start = "D" \o ToString(Today - 6) \o "T0"
    /\ lastOp.calls[Len(lastOp.calls)].end = "D" \o ToString(Today + 1) \o "T0"

(***************************************************************************)
(* Claims about what a failed call leaves in the cache (SpecCalls,         *)
(* SpecTTL).                                                               *)
(***************************************************************************)
\* the key of an answer about events
EventKey(key) == StartsWith(key, "events:") \/ StartsWith(key, "search:")

OwnKey(op) ==
    CASE op.op = "listCalendars" -> "calendars"
      [] op.op = "listAccounts" -> "accounts"
      [] op.op = "getTodayEvents" -> "events:today"
      [] op.op = "getWeekEvents" -> "events:week"
      [] op.op = "getEvents" -> RangeKey(op.args)
      [] op.op = "searchEvents" -> SearchKey(op.args)

CachingReads == {"listCalendars", "listAccounts", "getTodayEvents", "getWeekEvents",
                 "getEvents", "searchEvents"}

\* the call failed, to its caller or within (getTodayEvents and getWeekEvents
\* answer the empty shape then)
Failed(op) == op.threw \/ op.caught # NoError

FanOutReads == {"getTodayEvents", "getWeekEvents", "getEvents", "searchEvents"}

\* the call fanned out, an account failed and the call answered what the others
\* gave
Partial(op) ==
    /\ op.op \in FanOutReads
    /\ Succeeded(op)
    /\ EventsQueries(op.calls) # <<>>
    /\ op.op = "getEvents" => IsStr(op.args.calendar_ids, "all")
    /\ \E a \in OwningAccounts : op.net.events[a] # "ok"

\* C35: the partial answer of a getTodayEvents, getWeekEvents, getEvents or
\* searchEvents whose fan-out lost an account is cached under the key of the call
\* for the whole TTL of the operation, as a complete one is; the same call made
\* again within the TTL gets it, no account being queried again.
C35_PartialCached ==
    [][/\ (CallStep /\ Partial(lastOp')) =>
              \E j \in 1..Len(cache') :
                  cache'[j] = [key |-> OwnKey(lastOp'), value |-> lastOp'.result,
                               expiresAt |-> now + TTLOf(lastOp'.op) * MsPerSecond,
                               createdAt |-> now]
       /\ (CallStep /\ Partial(lastOp) /\ lastOp'.op = lastOp.op
             /\ lastOp'.args = lastOp.args
             /\ lastOp'.at - lastOp.at <= TTLOf(lastOp.op) * MsPerSecond) =>
              /\ lastOp'.calls = <<>>
              /\ lastOp'.result = lastOp.result
      ]_vars

\* half a minute after a getTodayEvents that lost the second account, a
\* getTodayEvents answered the events of the first account alone, from the cache
C35_WitnessPartialServed ==
    /\ lastOp.op = "getTodayEvents"
    /\ lastOp.at > 0
    /\ lastOp.calls = <<>>
    /\ lastOp.result = <<Standup, Planning>>
    /\ \E i \in 1..Len(cache) : cache[i].key = "events:today" /\ cache[i].createdAt = 0

(***************************************************************************)
(* Claims about the sweep of the cache (SpecCache, SpecSteps).             *)
(***************************************************************************)
\* C36: cleanup removes exactly the entries with now > expiresAt: after a sweep
\* no expired entry is left, and every entry that has not expired is still there,
\* with its value and its expiry, in the order in which the entries were.
C36_CleanupExact ==
    [][(OpStep /\ lastOp'.op = "cleanup") =>
           /\ \A j \in 1..Len(cache') : ~(now > cache'[j].expiresAt)
           /\ \A i \in 1..Len(cache) :
                  ~(now > cache[i].expiresAt) => \E j \in 1..Len(cache') : cache'[j] = cache[i]
           /\ \A j \in 1..Len(cache') : \E i \in 1..Len(cache) : cache[i] = cache'[j]
           /\ \A j, k \in 1..Len(cache') :
                  j < k => \E i, l \in 1..Len(cache) :
                               i < l /\ cache[i] = cache'[j] /\ cache[l] = cache'[k]]_vars

\* a sweep has run at the very instant at which an entry expires, and the entry
\* is still there
C36_WitnessKeptAtExpiry ==
    /\ lastOp.op = "cleanup"
    /\ lastOp.size > Len(cache)
    /\ \E j \in 1..Len(cache) : cache[j].expiresAt = now

\* what a get of the key answers
Got(c, key) == [hit |-> CacheGet(c, key, now).hit, value |-> CacheGet(c, key, now).value]

CreatedEvents == SelectSeq(up.events, LAMBDA e : e.id = "e7")

\* an entry of events built from what the upstream service answered before it
\* held the created events: every account answered, and the entry lacks them
Stale(entry) ==
    /\ EventKey(entry.key)
    /\ \E i \in 1..Len(CreatedEvents) :
           \A k \in 1..Len(entry.value) : entry.value[k] # CreatedEvents[i]

\* C38: when a createEvent has run to its successful end while a read was
\* suspended at a request, then, the read over, the cache holds no events: or
\* search: entry built from what the upstream service answered before the create.
C38_NoStaleSurvives ==
    [][(task.pc # "idle" /\ task'.pc = "idle" /\ task.overlapped
            /\ ~lastOp'.threw /\ lastOp'.errors = <<>> /\ lastOp'.caught = NoError) =>
           \A j \in 1..Len(cache') : ~Stale(cache'[j])]_vars

\* one call at a time: a createEvent that succeeds leaves no such entry
C38_SerialLeavesNone ==
    (task.pc = "idle" /\ lastOp.op = "createEvent" /\ ~lastOp.threw) =>
        \A j \in 1..Len(cache) : ~Stale(cache[j])

\* the read that overlapped a create has stored an entry without the created event
C38_WitnessStaleStored ==
    /\ task.pc = "idle"
    /\ lastOp.op = "getTodayEvents"
    /\ lastOp.errors = <<>> /\ lastOp.caught = NoError
    /\ CreatedEvents # <<>>
    /\ \E j \in 1..Len(cache) : cache[j].key = "events:today" /\ Stale(cache[j])

\* C39: the fan-out terminates: whatever the ids of the calendars, "all" and "ALL"
\* among them, and whatever the requests come to, a getAllEventsInRange that has
\* begun is over in the end.
C39_FanOutTerminates == (task.pc # "idle") ~> (task.pc = "idle")

\* listEvents does not call getAllEventsInRange from within getAllEventsInRange
C39_NoCallWithin == task.pc # "idle" => task.depth = 0

\* the fan-out over an account whose one calendar is "All" is over, one query for
\* each account
C39_WitnessOtherWordTerminates ==
    /\ task.pc = "idle"
    /\ lastOp.op = "getAllEventsInRange"
    /\ ~lastOp.threw
    /\ Len(EventsQueries(lastOp.calls)) = 2
    /\ \E i \in 1..Len(up.calendars) : up.calendars[i].id = "All"

=============================================================================
